---------------------------- MODULE Spec2Model ----------------------------
(***************************************************************************)
(* A model of chipsec/chipset.py: the session (init, destroy), the         *)
(* configuration store and its loader (init_cfg, init_xml_configuration,   *)
(* init_cfg_xml, init_cfg_bus), and the register access dispatcher         *)
(* (get_register_def, read_register, write_register, get_register_field,   *)
(* set_register_field).                                                    *)
(*                                                                         *)
(* Representation.                                                         *)
(*   - A register or field value is a Python int >= 0, kept as the set of  *)
(*     the positions of its 1 bits ({0, 33} is 2^33 + 1), so that the      *)
(*     widths 32 and 64 of the code are the real ones.                     *)
(*   - A text that the code takes apart (a file name, a platform code) is  *)
(*     the sequence of its ASCII codes; every other text is a string.      *)
(*   - A dict is a function; an XML element is a record of its attributes  *)
(*     (attrib) and of its children.                                       *)
(***************************************************************************)
EXTENDS Integers, Sequences, FiniteSets, TLC

VARIABLES
    vid,          \* Chipset.vid, did, rid: the identity of the host bridge
    did,
    rid,
    code,         \* Chipset.code
    longname,     \* Chipset.longname
    id,           \* Chipset.id
    pch_vid,      \* Chipset.pch_vid, pch_did, pch_rid: the identity of the PCH
    pch_did,
    pch_rid,
    pch_code,     \* Chipset.pch_code
    pch_longname, \* Chipset.pch_longname
    pch_id,       \* Chipset.pch_id
    helper,       \* Chipset.helper: whether it runs, and with the driver
    call,         \* the last call made on the session, with its arguments
    ncalls,       \* how many calls were made on the session
    enum_devices, \* what pci.enumerate_devices() returns on this machine
    cfg_modules,  \* the codes <code> that have a module chipsec.cfg.<code>
    malformed,    \* the paths under chipsec/cfg whose content is not XML
    Cfg,          \* Chipset.Cfg: the configuration store
    fs,           \* the paths of the files under chipsec/cfg
    loadlog,      \* the paths whose document init_cfg_xml has walked, in order
    snapshot,     \* the store as it was when the replay of loadlog began
    replay,       \* how many documents of loadlog have been loaded again
    pci_space,    \* PCI configuration space: <<bus, dev, fun>> -> bits
    hw_space,     \* MSRs, MMIO and I/O BARs, ports, sideband: address -> bits
    hw_log,       \* the transport calls the last register operation made,
                  \* and the errors it reported, in order
    ret,          \* what the last register operation returned
    err,          \* the exception the last operation raised ("" when none)
    reg_value,    \* field math: the register value at hand
    field_value,  \* field math: the field value at hand
    preserve,     \* field math: preserve_field_position
    orig,         \* field math: the values the run started from
    steps,        \* the operations applied so far, oldest first
    callers,      \* concurrent callers of write_register_field: where each
                  \* is in it and the reg_value it holds
    lock,         \* the per-register lock the callers may agree to take
    util          \* ChipsecUtil.main: its options, its command, where it is

identityvars == << vid, did, rid, code, longname, id,
                   pch_vid, pch_did, pch_rid, pch_code, pch_longname, pch_id >>
sessionvars == << identityvars, helper, call, ncalls >>
envvars     == << enum_devices, cfg_modules, malformed >>
loadvars    == << fs, loadlog, snapshot, replay >>
hwvars      == << pci_space, hw_space, hw_log, ret, err >>
fieldvars   == << reg_value, field_value, preserve, orig, steps >>
rmwvars     == << callers, lock >>
utilvars    == << util >>

vars == << sessionvars, envvars, Cfg, loadvars, hwvars, fieldvars, rmwvars,
          utilvars >>

VID_INTEL == 32902    \* 0x8086

\* the identity a Chipset has when __init__ returns; its helper is not started
NewChipset ==
    /\ vid = 65535 /\ did = 65535 /\ rid = 255
    /\ code = << >>
    /\ longname = "Unrecognized Platform"
    /\ id = 0
    /\ pch_vid = 65535 /\ pch_did = 65535 /\ pch_rid = 255
    /\ pch_code = << >>
    /\ pch_longname = "Unrecognized PCH"
    /\ pch_id = 0
    /\ helper = [ started |-> FALSE, driver |-> FALSE ]
    /\ call = [ op |-> "__init__" ]
    /\ ncalls = 0

\* a machine with no PCI device to enumerate, no module chipsec.cfg.<code>
\* and no file that is not XML
BareMachine ==
    /\ enum_devices = << >>
    /\ cfg_modules = {}
    /\ malformed = {}

\* nobody is inside write_register_field, and no lock is in use
NoCallers ==
    /\ callers = << >>
    /\ lock = [ used |-> FALSE, holder |-> "" ]

\* chipsec_util is not running
NoMain == util = [ pc |-> "" ]

-----------------------------------------------------------------------------
(* Python ints as sets of bit positions *)

Zero == {}
One  == {0}

\* a << n
Shl(a, n) == { i + n : i \in a }
\* a >> n
Shr(a, n) == { i - n : i \in { j \in a : j >= n } }
\* a & b
And(a, b) == a \cap b
\* a | b
Or(a, b) == a \cup b
\* a & ~b   (~b has every bit that b lacks, so the result is a without b's bits)
AndNot(a, b) == a \ b
\* a - 1, for a > 0: the lowest 1 bit is borrowed, the bits below it become 1
Dec(a) ==
    LET low == CHOOSE i \in a : \A j \in a : i <= j
    IN  (a \ {low}) \cup (0 .. low - 1)

\* 0xFFFFFFFF
DWORD_MASK == 0 .. 31

-----------------------------------------------------------------------------
(* Texts *)

\* str.lower() on a sequence of ASCII codes
Lower(s) == [ i \in DOMAIN s |-> IF s[i] \in 65 .. 90 THEN s[i] + 32 ELSE s[i] ]

\* str.startswith
StartsWith(s, p) == Len(s) >= Len(p) /\ SubSeq(s, 1, Len(p)) = p

\* str.endswith
EndsWith(s, p) ==
    Len(s) >= Len(p) /\ SubSeq(s, Len(s) - Len(p) + 1, Len(s)) = p

\* s < t in Python's order of strings (code point by code point)
RECURSIVE StrLess(_, _)
StrLess(s, t) ==
    IF t = << >> THEN FALSE
    ELSE IF s = << >> THEN TRUE
    ELSE IF Head(s) # Head(t) THEN Head(s) < Head(t)
    ELSE StrLess(Tail(s), Tail(t))

\* a Python int held where the documents hold a text (read_register_dict
\* leaves such values in the store)
PyInt(n) == "int:" \o ToString(n)

\* int(s): a decimal text, as the 'bit' and 'size' of a field are, or an int
MaxDec == 64
int(s) == CHOOSE n \in 0 .. MaxDec : ToString(n) = s \/ PyInt(n) = s

\* int(s, 16), on the hexadecimal texts the documents of this model use
HexTexts ==
    { <<"0", 0>>, <<"0x0", 0>>, <<"0x00", 0>>, <<"0x1", 1>>, <<"1", 1>>,
      <<"0x2", 2>>, <<"0x3", 3>>, <<"0x4", 4>>, <<"4", 4>>, <<"0x8", 8>>,
      <<"8", 8>>, <<"0x1f", 31>>, <<"0x1F", 31>>, <<"1f", 31>>,
      <<"0x40", 64>>, <<"0x44", 68>>, <<"0x48", 72>>, <<"0x50", 80>>,
      <<"0x8086", 32902>>, <<"8086", 32902>>, <<"0x100", 256>>,
      <<"0x0100", 256>>, <<"0x101", 257>>, <<"0x1c10", 7184>>, <<"0x1c11", 7185>>,
      <<"0x3a", 58>>, <<"0x3A", 58>> }
int16(s) == (CHOOSE p \in HexTexts : p[1] = s)[2]

-----------------------------------------------------------------------------
(* The configuration store *)

\* a dict with no key
EmptyDict == << >>

\* d[k] = v of Python: the key is added or its value replaced
DictSet(d, k, v) == [ x \in DOMAIN d \cup {k} |-> IF x = k THEN v ELSE d[x] ]

\* d.pop(k, None) of Python
DictPop(d, k) == [ x \in DOMAIN d \ {k} |-> d[x] ]

\* Cfg(): every category empty, nothing loaded yet
EmptyCfg ==
    [ CONFIG_PCI        |-> EmptyDict,
      MMIO_BARS         |-> EmptyDict,
      IO_BARS           |-> EmptyDict,
      MEMORY_RANGES     |-> EmptyDict,
      REGISTERS         |-> EmptyDict,
      CONTROLS          |-> EmptyDict,
      BUS               |-> EmptyDict,
      XML_CONFIG_LOADED |-> FALSE ]

-----------------------------------------------------------------------------
(* Register definitions and field math *)

\* class RegisterType: the register types read_register and write_register
\* have a branch for
RegisterType ==
    { "pcicfg", "mmcfg", "mmio", "msr", "io", "iobar", "msgbus", "mm_msgbus" }

\* a mutant of get_register_def: with a bus index out of range the bus an
\* earlier access left in the dict is kept
get_register_def_keeping_bus(cfg, reg_name, bus_index) ==
    LET reg_def == cfg.REGISTERS[reg_name]
    IN  IF /\ reg_def["type"] \in {"pcicfg", "mmcfg"}
           /\ "device" \in DOMAIN reg_def
           /\ reg_def["device"] \in DOMAIN cfg.CONFIG_PCI
        THEN LET dev_name == reg_def["device"]
                 dev      == cfg.CONFIG_PCI[dev_name]
                 bdf      == DictSet(DictSet(DictSet(reg_def,
                                 "bus", dev["bus"]), "dev", dev["dev"]),
                                 "fun", dev["fun"])
             IN  IF /\ dev_name \in DOMAIN cfg.BUS
                    /\ bus_index < Len(cfg.BUS[dev_name])
                 THEN DictSet(bdf, "bus", cfg.BUS[dev_name][bus_index + 1])
                 ELSE IF "bus" \in DOMAIN reg_def
                      THEN DictSet(bdf, "bus", reg_def["bus"]) ELSE bdf
        ELSE reg_def

\* The dict get_register_def returns; for a pcicfg or mmcfg register that
\* names a device, bus/dev/fun are those of the device, and bus is the
\* bus_index-th discovered bus when there is one.
get_register_def(cfg, reg_name, bus_index) ==
    LET reg_def == cfg.REGISTERS[reg_name]
    IN  IF /\ reg_def["type"] \in {"pcicfg", "mmcfg"}
           /\ "device" \in DOMAIN reg_def
           /\ reg_def["device"] \in DOMAIN cfg.CONFIG_PCI
        THEN LET dev_name == reg_def["device"]
                 dev      == cfg.CONFIG_PCI[dev_name]
                 bdf      == DictSet(DictSet(DictSet(reg_def,
                                 "bus", dev["bus"]), "dev", dev["dev"]),
                                 "fun", dev["fun"])
             IN  IF /\ dev_name \in DOMAIN cfg.BUS
                    /\ bus_index < Len(cfg.BUS[dev_name])
                 THEN DictSet(bdf, "bus", cfg.BUS[dev_name][bus_index + 1])
                 ELSE bdf
        ELSE reg_def

\* reg_def = self.Cfg.REGISTERS[reg_name] of get_register_def raises KeyError:
\* the store has no register of that name
RegisterKeyError(cfg, reg_name) == reg_name \notin DOMAIN cfg.REGISTERS

\* get_register_def writes bus/dev/fun into the very dict the store holds
\* (reg_def is Cfg.REGISTERS[reg_name], not a copy): the store afterwards.
StoreAfterDef(cfg, reg_name, bus_index) ==
    [ cfg EXCEPT !.REGISTERS =
        DictSet(@, reg_name, get_register_def(cfg, reg_name, bus_index)) ]

\* (1 << size) - 1
FieldMask(size) == Dec(Shl(One, size))

\* a mutant of get_register_field: the field is left in position whatever the
\* flag
get_register_field_preserving(cfg, reg_name, regval, field_name, keep) ==
    LET field_attrs == get_register_def(cfg, reg_name, 0)["FIELDS"][field_name]
        field_bit   == int(field_attrs["bit"])
        field_mask  == FieldMask(int(field_attrs["size"]))
    IN  And(regval, Shl(field_mask, field_bit))

\* get_register_field(reg_name, reg_value, field_name, preserve_field_position)
get_register_field(cfg, reg_name, regval, field_name, keep) ==
    LET field_attrs == get_register_def(cfg, reg_name, 0)["FIELDS"][field_name]
        field_bit   == int(field_attrs["bit"])
        field_mask  == FieldMask(int(field_attrs["size"]))
    IN  IF keep THEN And(regval, Shl(field_mask, field_bit))
                ELSE And(Shr(regval, field_bit), field_mask)

\* a mutant of set_register_field: the field value is shifted into position
\* whatever the flag
set_register_field_shifting(cfg, reg_name, regval, field_name, fieldval, keep) ==
    LET field_attrs == get_register_def(cfg, reg_name, 0)["FIELDS"][field_name]
        field_bit   == int(field_attrs["bit"])
        field_mask  == FieldMask(int(field_attrs["size"]))
        cleared     == AndNot(regval, Shl(field_mask, field_bit))
    IN  Or(cleared, Shl(And(fieldval, field_mask), field_bit))

\* a mutant of set_register_field: the other fields are not kept
set_register_field_clobbering(cfg, reg_name, regval, field_name, fieldval, keep) ==
    LET field_attrs == get_register_def(cfg, reg_name, 0)["FIELDS"][field_name]
        field_bit   == int(field_attrs["bit"])
        field_mask  == FieldMask(int(field_attrs["size"]))
    IN  IF keep THEN And(fieldval, Shl(field_mask, field_bit))
                ELSE Shl(And(fieldval, field_mask), field_bit)

\* set_register_field(reg_name, reg_value, field_name, field_value,
\* preserve_field_position)
set_register_field(cfg, reg_name, regval, field_name, fieldval, keep) ==
    LET field_attrs == get_register_def(cfg, reg_name, 0)["FIELDS"][field_name]
        field_bit   == int(field_attrs["bit"])
        field_mask  == FieldMask(int(field_attrs["size"]))
        cleared     == AndNot(regval, Shl(field_mask, field_bit))
    IN  IF keep THEN Or(cleared, And(fieldval, Shl(field_mask, field_bit)))
                ELSE Or(cleared, Shl(And(fieldval, field_mask), field_bit))

-----------------------------------------------------------------------------
(* Field math on its own: set_register_field and get_register_field applied *)
(* to a register value, a field value and a field drawn from bounded sets.   *)

MaxProbe == 1

\* the bit positions the values of a run are made of
ProbeBits == {0, 32, 63} \cup (1 .. MaxProbe)
ProbeValues == SUBSET ProbeBits

\* the fields of a run: bit offset and width, width <= 64 - offset
FieldOffsets == {0, 31, 32, 63} \cup (1 .. MaxProbe)
FieldWidths(off) == { w \in {0, 1, 2, 32, 33, 64} : w <= 64 - off }

\* a store with one 8-byte register R that has one field F
FieldCfg(off, width) ==
    [ EmptyCfg EXCEPT !.REGISTERS =
        DictSet(EmptyDict, "R",
          [ type   |-> "pcicfg", bus |-> "0", dev |-> "0", fun |-> "0",
            offset |-> "0x40", size |-> "0x8", desc |-> "",
            FIELDS |-> DictSet(EmptyDict, "F",
                         [ bit  |-> ToString(off),
                           size |-> ToString(width),
                           desc |-> "" ]) ]) ]

FieldOf(cfg) ==
    LET f == cfg.REGISTERS["R"]["FIELDS"]["F"]
    IN  [ bit |-> int(f["bit"]), size |-> int(f["size"]) ]

InitField ==
    /\ NewChipset /\ BareMachine
    /\ \E off \in FieldOffsets : \E width \in FieldWidths(off) :
           Cfg = FieldCfg(off, width)
    /\ fs = {} /\ loadlog = << >> /\ snapshot = EmptyCfg /\ replay = 0
    /\ pci_space = EmptyDict /\ hw_space = EmptyDict
    /\ hw_log = << >> /\ ret = Zero /\ err = ""
    /\ reg_value \in ProbeValues
    /\ field_value \in ProbeValues
    /\ preserve \in BOOLEAN
    /\ orig = [ reg_value |-> reg_value, field_value |-> field_value ]
    /\ steps = << >>
    /\ NoCallers
    /\ NoMain

\* reg_value = set_register_field('R', reg_value, 'F', field_value, preserve)
SetRegisterField ==
    /\ steps \in { << >>, << "get" >> }
    /\ reg_value' = set_register_field(Cfg, "R", reg_value, "F",
                                       field_value, preserve)
    /\ Cfg' = StoreAfterDef(Cfg, "R", 0)
    /\ steps' = Append(steps, "set")
    /\ UNCHANGED << field_value, preserve, orig >>
    /\ UNCHANGED << sessionvars, envvars, utilvars, rmwvars, loadvars, hwvars >>

\* field_value = get_register_field('R', reg_value, 'F', preserve)
GetRegisterField ==
    /\ steps \in { << >>, << "set" >> }
    /\ field_value' = get_register_field(Cfg, "R", reg_value, "F", preserve)
    /\ Cfg' = StoreAfterDef(Cfg, "R", 0)
    /\ steps' = Append(steps, "get")
    /\ UNCHANGED << reg_value, preserve, orig >>
    /\ UNCHANGED << sessionvars, envvars, utilvars, rmwvars, loadvars, hwvars >>

NextField == SetRegisterField \/ GetRegisterField

SpecField == InitField /\ [][NextField]_vars

\* C1 (as stated): after set_register_field then get_register_field with the
\* same flag, the field value read is value & ((1 << width) - 1), whatever the
\* flag.
C1_RoundTripAsStated ==
    steps = << "set", "get" >> =>
        field_value = And(orig.field_value, FieldMask(FieldOf(Cfg).size))

\* C1 (amended): after set_register_field then get_register_field with the same
\* flag, the field value read is value & ((1 << width) - 1) when the flag is
\* false, and value & (((1 << width) - 1) << offset) when it is true.
C1_RoundTrip ==
    steps = << "set", "get" >> =>
        LET f == FieldOf(Cfg)
        IN  field_value =
              IF preserve
              THEN And(orig.field_value, Shl(FieldMask(f.size), f.bit))
              ELSE And(orig.field_value, FieldMask(f.size))

\* a round trip with the flag set, on a field that is not at bit 0, of a value
\* that has a bit inside the field's position
C1_Witness ==
    /\ steps = << "set", "get" >>
    /\ preserve
    /\ FieldOf(Cfg).bit = 32 /\ FieldOf(Cfg).size = 32
    /\ 63 \in orig.field_value /\ 0 \in orig.field_value
    /\ field_value # Zero

\* C2: get_register_field then set_register_field of what was read, with the
\* same flag, gives back the register value: no bit of it changes.
C2_ExtractInsertIdentity ==
    steps = << "get", "set" >> => reg_value = orig.reg_value

\* an extract-then-insert on a register value with bits inside and outside a
\* field that is not at bit 0
C2_Witness ==
    /\ steps = << "get", "set" >>
    /\ FieldOf(Cfg).bit = 32 /\ FieldOf(Cfg).size = 2
    /\ {0, 32, 63} \subseteq orig.reg_value
    /\ reg_value = orig.reg_value

-----------------------------------------------------------------------------
(* The PCI configuration transport (chipsec.hal.pci): the configuration     *)
(* space of a function is the set of its 1 bits, bit 8*o + k being bit k of *)
(* the byte at offset o (little endian).                                     *)

\* the bits of the n bytes at offset o
ByteRange(o, n) == (8 * o) .. (8 * o + 8 * n - 1)

\* pci.read_byte / read_word / read_dword: the n bytes at offset o
PciRead(space, b, d, f, o, n) ==
    Shr(And(space[<< b, d, f >>], ByteRange(o, n)), 8 * o)

\* pci.write_byte / write_word / write_dword: the n bytes at offset o become
\* the low n bytes of value
PciWrite(space, b, d, f, o, n, value) ==
    [ space EXCEPT ![<< b, d, f >>] =
        Or(AndNot(@, ByteRange(o, n)),
           Shl(And(value, ByteRange(0, n)), 8 * o)) ]

\* one transaction, as the transport sees it
Txn(op, b, d, f, o) == [ op |-> op, bus |-> b, dev |-> d, fun |-> f, off |-> o ]
TxnW(op, b, d, f, o, value) ==
    [ op |-> op, bus |-> b, dev |-> d, fun |-> f, off |-> o, value |-> value ]

\* mmio.read_mmcfg_reg / write_mmcfg_reg: the same bytes of the configuration
\* space, reached through the memory-mapped window, one call whatever the size
TxnM(op, b, d, f, o, size) ==
    [ op |-> op, bus |-> b, dev |-> d, fun |-> f, off |-> o, size |-> size ]
TxnMW(op, b, d, f, o, size, value) ==
    [ op |-> op, bus |-> b, dev |-> d, fun |-> f, off |-> o, size |-> size,
      value |-> value ]

(* The other transports (chipsec.hal.msr, mmio, io, iobar, msgbus): what     *)
(* they reach is a cell << kind, bar, a, b >> -> bits: an MSR of a thread    *)
(* << "msr", "", cpu_thread, msr >>, a register of an MMIO or I/O BAR        *)
(* << "mmio", bar, offset, size >>, a port << "io", "", port, size >>, a     *)
(* sideband register << "msgbus", "", port, offset >>.  A cell never written *)
(* reads as 0.                                                               *)
HalRead(space, addr, n) ==
    IF addr \in DOMAIN space THEN And(space[addr], ByteRange(0, n)) ELSE Zero
HalWrite(space, addr, n, value) ==
    DictSet(space, addr, And(value, ByteRange(0, n)))

TxnH(op, addr) == [ op |-> op, addr |-> addr ]
TxnHW(op, addr, value) == [ op |-> op, addr |-> addr, value |-> value ]

\* the hardware a session reaches: the configuration space and the cells
Hardware(pci, cells) == [ pci |-> pci, cells |-> cells ]

\* the hardware after one transaction of a log has been carried out
ApplyTxn(hw, t) ==
    CASE t.op = "write_byte"  ->
           [ hw EXCEPT !.pci = PciWrite(@, t.bus, t.dev, t.fun, t.off, 1, t.value) ]
      [] t.op = "write_word"  ->
           [ hw EXCEPT !.pci = PciWrite(@, t.bus, t.dev, t.fun, t.off, 2, t.value) ]
      [] t.op = "write_dword" ->
           [ hw EXCEPT !.pci = PciWrite(@, t.bus, t.dev, t.fun, t.off, 4, t.value) ]
      [] t.op = "write_mmcfg_reg" ->
           [ hw EXCEPT !.pci = PciWrite(@, t.bus, t.dev, t.fun, t.off, t.size,
                                        t.value) ]
      [] t.op \in { "write_msr", "write_MMIO_BAR_reg", "_write_port",
                    "write_IO_BAR_reg", "msgbus_reg_write",
                    "mm_msgbus_reg_write" } ->
           [ hw EXCEPT !.cells = HalWrite(@, t.addr, 8, t.value) ]
      [] OTHER -> hw

RECURSIVE ApplyTxns(_, _)
ApplyTxns(hw, txns) ==
    IF txns = << >> THEN hw
    ELSE ApplyTxns(ApplyTxn(hw, Head(txns)), Tail(txns))

-----------------------------------------------------------------------------
(* read_register / write_register *)

\* a mutant of read_pcicfg: the two dwords of an 8-byte register are read low
\* dword first
read_pcicfg_low_first(space, b, d, f, o, size) ==
    IF size = 8
    THEN [ value |-> Or(Shl(PciRead(space, b, d, f, o + 4, 4), 32),
                        PciRead(space, b, d, f, o, 4)),
           txns  |-> << Txn("read_dword", b, d, f, o),
                        Txn("read_dword", b, d, f, o + 4) >> ]
    ELSE [ value |-> Zero, txns |-> << >> ]

\* a mutant of read_pcicfg: a size with no branch is read as a dword
read_pcicfg_any_size(space, b, d, f, o, size) ==
    IF size = 8
    THEN [ value |-> Or(Shl(PciRead(space, b, d, f, o + 4, 4), 32),
                        PciRead(space, b, d, f, o, 4)),
           txns  |-> << Txn("read_dword", b, d, f, o + 4),
                        Txn("read_dword", b, d, f, o) >> ]
    ELSE [ value |-> PciRead(space, b, d, f, o, size),
           txns  |-> << Txn(IF size = 1 THEN "read_byte"
                            ELSE IF size = 2 THEN "read_word"
                            ELSE "read_dword", b, d, f, o) >> ]

\* the PCICFG branch of read_register: the value read and the transactions
\* issued, in the order Python evaluates them (the left operand of | first)
read_pcicfg(space, b, d, f, o, size) ==
    CASE size = 1 -> [ value |-> PciRead(space, b, d, f, o, 1),
                       txns  |-> << Txn("read_byte", b, d, f, o) >> ]
      [] size = 2 -> [ value |-> PciRead(space, b, d, f, o, 2),
                       txns  |-> << Txn("read_word", b, d, f, o) >> ]
      [] size = 4 -> [ value |-> PciRead(space, b, d, f, o, 4),
                       txns  |-> << Txn("read_dword", b, d, f, o) >> ]
      [] size = 8 -> [ value |-> Or(Shl(PciRead(space, b, d, f, o + 4, 4), 32),
                                    PciRead(space, b, d, f, o, 4)),
                       txns  |-> << Txn("read_dword", b, d, f, o + 4),
                                    Txn("read_dword", b, d, f, o) >> ]
      [] OTHER    -> [ value |-> Zero, txns |-> << >> ]

\* what read_register returns when it returns nothing (it raised)
NoValue == { -1 }

\* a mutant of read_register: a register of a type with no branch reads as
\* the initial reg_value, 0
read_register_defaulting(cfg, hw, reg_name, cpu_thread, bus_index) ==
    LET reg == get_register_def(cfg, reg_name, bus_index)
    IN  IF reg["type"] = "pcicfg"
        THEN LET r == read_pcicfg(hw.pci, int16(reg["bus"]), int16(reg["dev"]),
                                  int16(reg["fun"]), int16(reg["offset"]),
                                  int16(reg["size"]))
             IN  [ value |-> r.value, txns |-> r.txns, err |-> "" ]
        ELSE [ value |-> Zero, txns |-> << >>, err |-> "" ]

\* one call of a transport that reads a cell of n bytes
read_hal(hw, op, addr, n) ==
    [ value |-> HalRead(hw.cells, addr, n), txns |-> << TxnH(op, addr) >> ]

\* msr.read_msr(cpu_thread, msr): (eax, edx), the low and the high half of
\* the MSR of that thread
read_msr(hw, cpu_thread, msr) ==
    LET m == HalRead(hw.cells, << "msr", "", cpu_thread, msr >>, 8)
    IN  [ eax  |-> And(m, DWORD_MASK),
          edx  |-> And(Shr(m, 32), DWORD_MASK),
          txns |-> << TxnH("read_msr", << "msr", "", cpu_thread, msr >>) >> ]

\* a mutant of msr_value: edx is not shifted
msr_value_unshifted(eax, edx) == Or(edx, eax)

\* reg_value = (edx << 32) | eax
msr_value(eax, edx) == Or(Shl(edx, 32), eax)

\* read_register once reg = self.get_register_def(reg_name, bus_index) is
\* at hand: the branch of the register's type
read_register_of(hw, reg, cpu_thread) ==
    LET rtype == reg["type"]
        r == CASE rtype = "pcicfg" ->
                    read_pcicfg(hw.pci, int16(reg["bus"]), int16(reg["dev"]),
                                int16(reg["fun"]), int16(reg["offset"]),
                                int16(reg["size"]))
               [] rtype = "mmcfg" ->
                    LET b == int16(reg["bus"])  d == int16(reg["dev"])
                        f == int16(reg["fun"])  o == int16(reg["offset"])
                        size == int16(reg["size"])
                    IN  [ value |-> PciRead(hw.pci, b, d, f, o, size),
                          txns  |-> << TxnM("read_mmcfg_reg", b, d, f, o,
                                            size) >> ]
               [] rtype = "mmio" ->
                    read_hal(hw, "read_MMIO_BAR_reg",
                             << "mmio", reg["bar"], int16(reg["offset"]),
                                int16(reg["size"]) >>, int16(reg["size"]))
               [] rtype = "msr" ->
                    LET m == read_msr(hw, cpu_thread, int16(reg["msr"]))
                    IN  [ value |-> msr_value(m.eax, m.edx), txns |-> m.txns ]
               [] rtype = "io" ->
                    read_hal(hw, "_read_port",
                             << "io", "", int16(reg["port"]),
                                int16(reg["size"]) >>, int16(reg["size"]))
               [] rtype = "iobar" ->
                    read_hal(hw, "read_IO_BAR_reg",
                             << "iobar", reg["bar"], int16(reg["offset"]),
                                int16(reg["size"]) >>, int16(reg["size"]))
               [] rtype = "msgbus" ->
                    read_hal(hw, "msgbus_reg_read",
                             << "msgbus", "", int16(reg["port"]),
                                int16(reg["offset"]) >>, 4)
               [] rtype = "mm_msgbus" ->
                    read_hal(hw, "mm_msgbus_reg_read",
                             << "mm_msgbus", "", int16(reg["port"]),
                                int16(reg["offset"]) >>, 4)
               [] OTHER -> [ value |-> NoValue, txns |-> << >> ]
    IN  [ value |-> r.value, txns |-> r.txns,
          err   |-> IF rtype \in RegisterType THEN ""
                    ELSE "RegisterTypeNotFoundError" ]

\* read_register: [value, txns, err]; hw is the hardware it reads
read_register(cfg, hw, reg_name, cpu_thread, bus_index) ==
    IF RegisterKeyError(cfg, reg_name)
    THEN [ value |-> NoValue, txns |-> << >>, err |-> "KeyError" ]
    ELSE read_register_of(hw, get_register_def(cfg, reg_name, bus_index),
                          cpu_thread)

\* a mutant of write_pcicfg: the high dword of an 8-byte register is written
\* without the shift by 32
write_pcicfg_no_shift(space, b, d, f, o, size, value) ==
    IF size = 8
    THEN LET lo == And(value, DWORD_MASK)
         IN  [ space |-> PciWrite(PciWrite(space, b, d, f, o, 4, lo),
                                  b, d, f, o + 4, 4, lo),
               txns  |-> << TxnW("write_dword", b, d, f, o, lo),
                            TxnW("write_dword", b, d, f, o + 4, lo) >> ]
    ELSE [ space |-> space, txns |-> << >> ]

\* the PCICFG branch of write_register: the configuration space afterwards and
\* the transactions issued, in order
write_pcicfg(space, b, d, f, o, size, value) ==
    CASE size = 1 -> [ space |-> PciWrite(space, b, d, f, o, 1, value),
                       txns  |-> << TxnW("write_byte", b, d, f, o, value) >> ]
      [] size = 2 -> [ space |-> PciWrite(space, b, d, f, o, 2, value),
                       txns  |-> << TxnW("write_word", b, d, f, o, value) >> ]
      [] size = 4 -> [ space |-> PciWrite(space, b, d, f, o, 4, value),
                       txns  |-> << TxnW("write_dword", b, d, f, o, value) >> ]
      [] size = 8 ->
           LET lo == And(value, DWORD_MASK)
               hi == And(Shr(value, 32), DWORD_MASK)
           IN  [ space |-> PciWrite(PciWrite(space, b, d, f, o, 4, lo),
                                    b, d, f, o + 4, 4, hi),
                 txns  |-> << TxnW("write_dword", b, d, f, o, lo),
                              TxnW("write_dword", b, d, f, o + 4, hi) >> ]
      [] OTHER    -> [ space |-> space, txns |-> << >> ]

\* one call of a transport that writes a cell of n bytes
write_hal(hw, op, addr, n, value) ==
    [ space |-> HalWrite(hw.cells, addr, n, value),
      txns  |-> << TxnHW(op, addr, And(value, ByteRange(0, n))) >> ]

\* msr.write_msr(cpu_thread, msr, eax, edx): the MSR of that thread takes
\* eax as its low half and edx as its high half
write_msr(hw, cpu_thread, msr, eax, edx) ==
    LET addr == << "msr", "", cpu_thread, msr >>
        bits == And(Or(Shl(edx, 32), eax), ByteRange(0, 8))
    IN  [ space |-> HalWrite(hw.cells, addr, 8, bits),
          txns  |-> << [ op |-> "write_msr", addr |-> addr, value |-> bits,
                         eax |-> eax, edx |-> edx ] >> ]

\* write_register once reg = self.get_register_def(reg_name, bus_index) is
\* at hand: the branch of the register's type
write_register_of(hw, reg, value, cpu_thread) ==
    LET rtype == reg["type"]
        cells(w) == [ hw EXCEPT !.cells = w.space ]
    IN  CASE rtype = "pcicfg" ->
               LET w == write_pcicfg(hw.pci, int16(reg["bus"]),
                            int16(reg["dev"]), int16(reg["fun"]),
                            int16(reg["offset"]), int16(reg["size"]), value)
               IN  [ hw |-> [ hw EXCEPT !.pci = w.space ], txns |-> w.txns,
                     err |-> "" ]
          [] rtype = "mmcfg" ->
               LET b == int16(reg["bus"])  d == int16(reg["dev"])
                   f == int16(reg["fun"])  o == int16(reg["offset"])
                   size == int16(reg["size"])
               IN  [ hw |-> [ hw EXCEPT !.pci =
                                PciWrite(@, b, d, f, o, size, value) ],
                     txns |-> << TxnMW("write_mmcfg_reg", b, d, f, o, size,
                                       value) >>,
                     err |-> "" ]
          [] rtype = "mmio" ->
               LET w == write_hal(hw, "write_MMIO_BAR_reg",
                            << "mmio", reg["bar"], int16(reg["offset"]),
                               int16(reg["size"]) >>, int16(reg["size"]), value)
               IN  [ hw |-> cells(w), txns |-> w.txns, err |-> "" ]
          [] rtype = "msr" ->
               LET eax == And(value, DWORD_MASK)
                   edx == And(Shr(value, 32), DWORD_MASK)
                   w == write_msr(hw, cpu_thread, int16(reg["msr"]), eax, edx)
               IN  [ hw |-> cells(w), txns |-> w.txns, err |-> "" ]
          [] rtype = "io" ->
               LET w == write_hal(hw, "_write_port",
                            << "io", "", int16(reg["port"]),
                               int16(reg["size"]) >>, int16(reg["size"]), value)
               IN  [ hw |-> cells(w), txns |-> w.txns, err |-> "" ]
          [] rtype = "iobar" ->
               LET w == write_hal(hw, "write_IO_BAR_reg",
                            << "iobar", reg["bar"], int16(reg["offset"]),
                               int16(reg["size"]) >>, int16(reg["size"]), value)
               IN  [ hw |-> cells(w), txns |-> w.txns, err |-> "" ]
          [] rtype = "msgbus" ->
               LET w == write_hal(hw, "msgbus_reg_write",
                            << "msgbus", "", int16(reg["port"]),
                               int16(reg["offset"]) >>, 4, value)
               IN  [ hw |-> cells(w), txns |-> w.txns, err |-> "" ]
          [] rtype = "mm_msgbus" ->
               LET w == write_hal(hw, "mm_msgbus_reg_write",
                            << "mm_msgbus", "", int16(reg["port"]),
                               int16(reg["offset"]) >>, 4, value)
               IN  [ hw |-> cells(w), txns |-> w.txns, err |-> "" ]
          [] OTHER -> [ hw |-> hw, txns |-> << >>,
                        err |-> "RegisterTypeNotFoundError" ]

\* write_register: [hw, txns, err]; hw is the hardware afterwards
write_register(cfg, hw, reg_name, value, cpu_thread, bus_index) ==
    IF RegisterKeyError(cfg, reg_name)
    THEN [ hw |-> hw, txns |-> << >>, err |-> "KeyError" ]
    ELSE write_register_of(hw, get_register_def(cfg, reg_name, bus_index),
                           value, cpu_thread)

-----------------------------------------------------------------------------
(* Register access on a loaded store: read_register and write_register on   *)
(* PCI configuration registers of 8, 4 and 2 bytes.                          *)

MaxOps == 2

\* the bit positions the values written are made of: both ends of both dwords
RegProbeBits == {0, 31, 32, 63}
RegValues    == SUBSET RegProbeBits

\* R8: 8 bytes at 0x40 of 0:0.0; R4: its high dword, as a register of its own;
\* RD: 2 bytes of the device DEV, whose bus/dev/fun come from CONFIG_PCI
RegCfg ==
    [ EmptyCfg EXCEPT
        !.CONFIG_PCI = DictSet(EmptyDict, "DEV",
            [ bus |-> "0", dev |-> "0x1f", fun |-> "0" ]),
        !.REGISTERS =
            DictSet(DictSet(DictSet(EmptyDict,
              "R8", [ type |-> "pcicfg", bus |-> "0", dev |-> "0", fun |-> "0",
                      offset |-> "0x40", size |-> "0x8", desc |-> "" ]),
              "R4", [ type |-> "pcicfg", bus |-> "0", dev |-> "0", fun |-> "0",
                      offset |-> "0x44", size |-> "0x4", desc |-> "" ]),
              "RD", [ type |-> "pcicfg", device |-> "DEV",
                      offset |-> "0x40", size |-> "0x2", desc |-> "" ]),
        !.XML_CONFIG_LOADED = TRUE ]

\* what the hardware holds before the first access: nothing, or every probed
\* bit of the 8 bytes at 0x40
InitialSpaces ==
    { [ bdf \in { <<0, 0, 0>>, <<0, 31, 0>> } |-> bits ] :
        bits \in { Zero, Shl(RegProbeBits, 8 * 64) } }

InitReg ==
    /\ NewChipset /\ BareMachine
    /\ Cfg = RegCfg
    /\ fs = {} /\ loadlog = << >> /\ snapshot = EmptyCfg /\ replay = 0
    /\ pci_space \in InitialSpaces /\ hw_space = EmptyDict
    /\ hw_log = << >> /\ ret = Zero /\ err = ""
    /\ reg_value = Zero /\ field_value = Zero /\ preserve = FALSE
    /\ orig = [ reg_value |-> Zero, field_value |-> Zero ]
    /\ steps = << >>
    /\ NoCallers
    /\ NoMain

\* ret = read_register(reg_name)
ReadRegister ==
    /\ Len(steps) < MaxOps
    /\ \E reg_name \in DOMAIN Cfg.REGISTERS :
         LET r == read_register(Cfg, Hardware(pci_space, hw_space), reg_name, 0, 0)
         IN  /\ ret' = r.value
             /\ hw_log' = r.txns
             /\ err' = r.err
             /\ Cfg' = StoreAfterDef(Cfg, reg_name, 0)
             /\ steps' = Append(steps, [ op |-> "read_register",
                                         reg |-> reg_name, value |-> r.value ])
    /\ UNCHANGED << pci_space, hw_space, sessionvars, envvars, utilvars, rmwvars,
                    loadvars >>
    /\ UNCHANGED << reg_value, field_value, preserve, orig >>

\* write_register(reg_name, value)
WriteRegister ==
    /\ Len(steps) < MaxOps
    /\ \E reg_name \in DOMAIN Cfg.REGISTERS : \E value \in RegValues :
         LET w == write_register(Cfg, Hardware(pci_space, hw_space),
                                 reg_name, value, 0, 0)
         IN  /\ pci_space' = w.hw.pci
             /\ hw_space' = w.hw.cells
             /\ hw_log' = w.txns
             /\ err' = w.err
             /\ ret' = Zero
             /\ Cfg' = StoreAfterDef(Cfg, reg_name, 0)
             /\ steps' = Append(steps, [ op |-> "write_register",
                                         reg |-> reg_name, value |-> value ])
    /\ UNCHANGED << sessionvars, envvars, utilvars, rmwvars, loadvars >>
    /\ UNCHANGED << reg_value, field_value, preserve, orig >>

NextReg == ReadRegister \/ WriteRegister

SpecReg == InitReg /\ [][NextReg]_vars

\* the last operation applied
LastOp == steps[Len(steps)]

\* the declared size of a register, in bytes
SizeOf(reg_name) == int16(Cfg.REGISTERS[reg_name]["size"])
OffsetOf(reg_name) == int16(Cfg.REGISTERS[reg_name]["offset"])

\* the operations and offsets of a list of transactions
Shape(txns) == [ i \in DOMAIN txns |-> << txns[i].op, txns[i].off >> ]

\* C3 (as stated): read_register of an 8-byte PCI-config register issues two
\* dword reads, the low dword at the register's offset first and the high
\* dword at offset+4 second; write_register issues its two dword writes low
\* then high.
C3_LowThenHighAsStated ==
    (steps # << >> /\ SizeOf(LastOp.reg) = 8) =>
        LET o == OffsetOf(LastOp.reg)
        IN  /\ LastOp.op = "read_register" =>
                Shape(hw_log) = << <<"read_dword", o>>, <<"read_dword", o + 4>> >>
            /\ LastOp.op = "write_register" =>
                Shape(hw_log) = << <<"write_dword", o>>, <<"write_dword", o + 4>> >>

\* C3 (amended): read_register of an 8-byte PCI-config register issues exactly
\* two dword reads, the high dword at offset+4 first and the low dword at the
\* register's offset second; write_register issues exactly two dword writes,
\* the low dword at the offset first and the high dword at offset+4 second.
C3_DwordOrder ==
    (steps # << >> /\ SizeOf(LastOp.reg) = 8) =>
        LET o == OffsetOf(LastOp.reg)
        IN  /\ LastOp.op = "read_register" =>
                Shape(hw_log) = << <<"read_dword", o + 4>>, <<"read_dword", o>> >>
            /\ LastOp.op = "write_register" =>
                /\ Shape(hw_log) =
                     << <<"write_dword", o>>, <<"write_dword", o + 4>> >>
                /\ hw_log[1].value = And(LastOp.value, DWORD_MASK)
                /\ hw_log[2].value = Shr(LastOp.value, 32)

\* an 8-byte register has just been read, and its two dwords differed
C3_Witness ==
    /\ steps # << >>
    /\ LastOp.op = "read_register" /\ LastOp.reg = "R8"
    /\ Len(hw_log) = 2
    /\ ret = {0, 63}

\* C4: on an 8-byte PCI-config register, write_register(x) followed at once by
\* read_register returns x, for every 64-bit x.
C4_WriteThenRead ==
    \A i \in 1 .. Len(steps) - 1 :
        ( /\ steps[i].op = "write_register"
          /\ steps[i + 1].op = "read_register"
          /\ steps[i + 1].reg = steps[i].reg
          /\ SizeOf(steps[i].reg) = 8 )
        => steps[i + 1].value = steps[i].value

\* a value whose only 1 bits are in the high dword was written to an 8-byte
\* register over hardware that held other bits, and read back
C4_Witness ==
    /\ Len(steps) = 2
    /\ steps[1] = [ op |-> "write_register", reg |-> "R8", value |-> {32, 63} ]
    /\ steps[2].op = "read_register" /\ steps[2].reg = "R8"
    /\ ret = {32, 63}
    /\ hw_log # << >>

-----------------------------------------------------------------------------
(* Configuration documents.  A document is the sequence of its              *)
(* <configuration> sections; a section has its attributes and, per category, *)
(* the elements of that category in document order; an element has its      *)
(* attributes, and a <register> its <field> children.                        *)

\* a mutant of LoadEntry: an entry marked undef removes nothing
LoadEntry_no_removal(dict, elem) ==
    LET _name  == elem.attrib["name"]
        attrib == DictPop(elem.attrib, "name")
    IN  IF "undef" \in DOMAIN attrib THEN dict
        ELSE DictSet(dict, _name, attrib)

\* a mutant of LoadEntry: 'continue' is reached only when a name was removed,
\* so that removing a name the dict lacks defines it
LoadEntry_undef_defines(dict, elem) ==
    LET _name  == elem.attrib["name"]
        attrib == DictPop(elem.attrib, "name")
    IN  IF "undef" \in DOMAIN attrib /\ _name \in DOMAIN dict
        THEN DictPop(dict, _name)
        ELSE DictSet(dict, _name, attrib)

\* the per-entry code of the five plain categories (pci/device, mmio/bar,
\* io/bar, memory/range, controls/control): the category's dict afterwards
LoadEntry(dict, elem) ==
    LET _name  == elem.attrib["name"]
        attrib == DictPop(elem.attrib, "name")
    IN  IF "undef" \in DOMAIN attrib
        THEN IF _name \in DOMAIN dict THEN DictPop(dict, _name) ELSE dict
        ELSE DictSet(dict, _name, attrib)

RECURSIVE LoadEntries(_, _)
LoadEntries(dict, elems) ==
    IF elems = << >> THEN dict
    ELSE LoadEntries(LoadEntry(dict, Head(elems)), Tail(elems))

\* reg_fields: field name -> the field's attributes, desc defaulting to ''
RECURSIVE RegFields(_, _)
RegFields(reg_fields, fields) ==
    IF fields = << >> THEN reg_fields
    ELSE LET _field_name == Head(fields).attrib["name"]
             a0 == DictPop(Head(fields).attrib, "name")
             a1 == IF "desc" \in DOMAIN a0 THEN a0 ELSE DictSet(a0, "desc", "")
         IN  RegFields(DictSet(reg_fields, _field_name, a1), Tail(fields))

\* a mutant of LoadRegister: the attributes of a register already in the dict
\* are updated, those the new definition lacks survive
LoadRegister_merge(dict, elem) ==
    LET _name == elem.attrib["name"]
        a0 == DictPop(elem.attrib, "name")
        a1 == IF "size" \in DOMAIN a0 THEN a0 ELSE DictSet(a0, "size", "0x4")
        a2 == IF "desc" \in DOMAIN a1 THEN a1 ELSE DictSet(a1, "desc", "")
        a3 == IF elem.fields # << >>
              THEN DictSet(a2, "FIELDS", RegFields(EmptyDict, elem.fields))
              ELSE a2
        old == IF _name \in DOMAIN dict THEN dict[_name] ELSE EmptyDict
    IN  IF "undef" \in DOMAIN a0
        THEN IF _name \in DOMAIN dict THEN DictPop(dict, _name) ELSE dict
        ELSE DictSet(dict, _name,
                     [ k \in DOMAIN old \cup DOMAIN a3 |->
                         IF k \in DOMAIN a3 THEN a3[k] ELSE old[k] ])

\* the per-entry code of the registers category
LoadRegister(dict, elem) ==
    LET _name == elem.attrib["name"]
        a0 == DictPop(elem.attrib, "name")
        a1 == IF "size" \in DOMAIN a0 THEN a0 ELSE DictSet(a0, "size", "0x4")
        a2 == IF "desc" \in DOMAIN a1 THEN a1 ELSE DictSet(a1, "desc", "")
        a3 == IF elem.fields # << >>
              THEN DictSet(a2, "FIELDS", RegFields(EmptyDict, elem.fields))
              ELSE a2
    IN  IF "undef" \in DOMAIN a0
        THEN IF _name \in DOMAIN dict THEN DictPop(dict, _name) ELSE dict
        ELSE DictSet(dict, _name, a3)

RECURSIVE LoadRegisters(_, _)
LoadRegisters(dict, elems) ==
    IF elems = << >> THEN dict
    ELSE LoadRegisters(LoadRegister(dict, Head(elems)), Tail(elems))

\* a mutant of SectionApplies: the platform attribute is compared as written
SectionApplies_case_sensitive(section, _code, _pch_code) ==
    IF "platform" \notin DOMAIN section.attrib THEN TRUE
    ELSE IF _code = section.attrib["platform"] THEN TRUE
    ELSE IF _pch_code = section.attrib["platform"] THEN TRUE
    ELSE FALSE

\* whether a <configuration> section is loaded for this platform
SectionApplies(section, _code, _pch_code) ==
    IF "platform" \notin DOMAIN section.attrib THEN TRUE
    ELSE IF _code = Lower(section.attrib["platform"]) THEN TRUE
    ELSE IF _pch_code = Lower(section.attrib["platform"]) THEN TRUE
    ELSE FALSE

\* the body of the loop over sections, for a section that is loaded: one
\* category after the other
LoadSection(cfg, section) ==
    [ cfg EXCEPT
        !.CONFIG_PCI    = LoadEntries(@, section.pci),
        !.MMIO_BARS     = LoadEntries(@, section.mmio),
        !.IO_BARS       = LoadEntries(@, section.io),
        !.MEMORY_RANGES = LoadEntries(@, section.memory),
        !.REGISTERS     = LoadRegisters(@, section.registers),
        !.CONTROLS      = LoadEntries(@, section.controls) ]

\* for _cfg in root.iter('configuration')
RECURSIVE LoadDocument(_, _, _, _)
LoadDocument(cfg, sections, _code, _pch_code) ==
    IF sections = << >> THEN cfg
    ELSE LoadDocument(
           IF SectionApplies(Head(sections), _code, _pch_code)
           THEN LoadSection(cfg, Head(sections))
           ELSE cfg,
           Tail(sections), _code, _pch_code)

-----------------------------------------------------------------------------
(* The files of this model and what they hold.  Texts the code takes apart  *)
(* are spelled as ASCII codes.                                               *)

T_xml    == << 46, 120, 109, 108 >>            \* ".xml"
T_common == << 99, 111, 109, 109, 111, 110 >>   \* "common"
T_snb    == << 115, 110, 98 >>                \* "snb"
T_SNB    == << 83, 78, 66 >>                   \* "SNB"
T_ivb    == << 105, 118, 98 >>                \* "ivb"
T_IVB    == << 73, 86, 66 >>                   \* "IVB"
T_pch_   == << 112, 99, 104, 95 >>             \* "pch_"
T_PCH_   == << 80, 67, 72, 95 >>              \* "PCH_"
T_1xx    == << 49, 120, 120 >>                \* "1xx"
T_1XX    == << 49, 88, 88 >>                  \* "1XX"
T_2xx    == << 50, 120, 120 >>                \* "2xx"
T_2XX    == << 50, 88, 88 >>                  \* "2XX"
T_iommu  == << 105, 111, 109, 109, 117 >>     \* "iommu"
T_z      == << 95, 122 >>                     \* "_z"
T_dir    == << 97, 47 >>                      \* "a/"
T_none   == << 110, 111, 110, 101, 46, 120, 109, 108 >>  \* "none.xml"

F_common   == T_common \o T_xml                  \* common.xml
F_common_z == T_dir \o T_common \o T_z \o T_xml  \* a/common_z.xml
F_snb      == T_snb \o T_xml                     \* snb.xml
F_ivb      == T_ivb \o T_xml                     \* ivb.xml
F_pch_1xx  == T_pch_ \o T_1xx \o T_xml           \* pch_1xx.xml
F_pch_2xx  == T_pch_ \o T_2xx \o T_xml           \* pch_2xx.xml
F_iommu    == T_iommu \o T_xml                   \* iommu.xml
F_missing  == T_none                             \* a path with no file

Files == { F_common, F_common_z, F_snb, F_ivb, F_pch_1xx, F_pch_2xx, F_iommu }

\* an element without children, a <register> with its <field> children
El(attrib) == [ attrib |-> attrib, fields |-> << >> ]
Reg(attrib, fields) == [ attrib |-> attrib, fields |-> fields ]

\* a section with the same element in the five plain categories and one
\* register
Sec(attrib, plain, registers) ==
    [ attrib |-> attrib, pci |-> plain, mmio |-> plain, io |-> plain,
      memory |-> plain, registers |-> registers, controls |-> plain ]

NoPlatform   == EmptyDict
Platform(t)  == [ platform |-> t ]

\* an entry that removes X
UndefX == El([ name |-> "X", undef |-> "not on this platform" ])

\* common.xml: X defined in every category; a register Y with neither size,
\* desc nor fields
Doc_common ==
    << [ attrib    |-> NoPlatform,
         pci       |-> << El([ name |-> "X", bus |-> "0", dev |-> "0x1f",
                               fun |-> "0", vid |-> "0x8086",
                               did |-> "0x1c10,0x1c11" ]) >>,
         mmio      |-> << El([ name |-> "X", register |-> "X",
                               base_field |-> "F2", size |-> "0x100" ]) >>,
         io        |-> << El([ name |-> "X", register |-> "X",
                               base_field |-> "F2" ]) >>,
         memory    |-> << El([ name |-> "X", access |-> "dram",
                               address |-> "0x0", size |-> "0x100" ]) >>,
         registers |-> << Reg([ name |-> "X", type |-> "pcicfg",
                                device |-> "X", offset |-> "0x40",
                                size |-> "0x8", desc |-> "common" ],
                              << El([ name |-> "F1", bit |-> "0",
                                      size |-> "1", desc |-> "lock" ]),
                                 El([ name |-> "F2", bit |-> "1",
                                      size |-> "2" ]) >>),
                          Reg([ name |-> "Y", type |-> "msr",
                                msr |-> "0x3A" ], << >>) >>,
         controls  |-> << El([ name |-> "X", register |-> "X",
                               field |-> "F1", desc |-> "common" ]) >> ] >>

\* a/common_z.xml: Y defined again, now with a field; an entry removing a
\* name that no document defines
Doc_common_z ==
    << Sec(NoPlatform,
           << El([ name |-> "Q", undef |-> "never defined" ]) >>,
           << Reg([ name |-> "Y", type |-> "msr", msr |-> "0x3A",
                    size |-> "0x8" ],
                  << El([ name |-> "EN", bit |-> "63", size |-> "1" ]) >>),
              Reg([ name |-> "Q", undef |-> "never defined" ], << >>) >>) >>

\* snb.xml: X defined again in every category, with other attributes and, for
\* the register, without fields
Doc_snb ==
    << Sec(NoPlatform,
           << El([ name |-> "X", bus |-> "0", dev |-> "0x1", fun |-> "0",
                   desc |-> "snb" ]) >>,
           << Reg([ name |-> "X", type |-> "pcicfg", bus |-> "0",
                    dev |-> "0", fun |-> "0", offset |-> "0x44",
                    size |-> "0x4", desc |-> "snb" ], << >>) >>) >>

\* ivb.xml: X removed from every category
Doc_ivb ==
    << Sec(NoPlatform, << UndefX >>,
           << Reg([ name |-> "X", undef |-> "not on this platform" ],
                  << >>) >>) >>

\* pch_1xx.xml: one section scoped to the PCH (in upper case)
Doc_pch_1xx ==
    << Sec(Platform(T_PCH_ \o T_1XX),
           << El([ name |-> "X", pch |-> "1xx" ]) >>,
           << Reg([ name |-> "X", type |-> "mmio", bar |-> "X",
                    offset |-> "0x4" ],
                  << El([ name |-> "P", bit |-> "31", size |-> "1" ]) >>) >>) >>

\* pch_2xx.xml: one section for every platform
Doc_pch_2xx ==
    << Sec(NoPlatform,
           << El([ name |-> "P2", pch |-> "2xx" ]) >>,
           << >>) >>

\* iommu.xml: a section scoped to SNB (in upper case), a section for every
\* platform, a section scoped to ivb, and a section whose platform is ''
Doc_iommu ==
    << Sec(Platform(T_SNB),
           << El([ name |-> "X", iommu |-> "snb" ]),
              El([ name |-> "W", iommu |-> "snb" ]) >>,
           << Reg([ name |-> "Y", undef |-> "no such msr" ], << >>) >>),
       Sec(NoPlatform,
           << El([ name |-> "Z", iommu |-> "any" ]) >>,
           << Reg([ name |-> "Z", type |-> "mmio", bar |-> "Z",
                    offset |-> "0x0" ], << >>) >>),
       Sec(Platform(T_ivb),
           << UndefX, El([ name |-> "W", iommu |-> "ivb" ]) >>,
           << Reg([ name |-> "X", undef |-> "gone" ], << >>),
              Reg([ name |-> "W", type |-> "io", port |-> "0x50" ],
                  << >>) >>),
       Sec(Platform(<< >>),
           << El([ name |-> "E", iommu |-> "unknown" ]) >>,
           << >>) >>

\* ET.parse(fxml).getroot(): the sections of the document at a path
Document(fxml) ==
    CASE fxml = F_common   -> Doc_common
      [] fxml = F_common_z -> Doc_common_z
      [] fxml = F_snb      -> Doc_snb
      [] fxml = F_ivb      -> Doc_ivb
      [] fxml = F_pch_1xx  -> Doc_pch_1xx
      [] fxml = F_pch_2xx  -> Doc_pch_2xx
      [] fxml = F_iommu    -> Doc_iommu

\* init_cfg_xml(fxml, code, pch_code): the store afterwards; a path that does
\* not exist changes nothing
init_cfg_xml(cfg, fsys, fxml, _code, _pch_code) ==
    IF fxml \notin fsys THEN cfg
    ELSE LoadDocument(cfg, Document(fxml), _code, _pch_code)

-----------------------------------------------------------------------------
(* Loading on its own: init_cfg_xml called on the files in any order, then  *)
(* the same sequence of calls made a second time.                            *)

MaxLoads == 3

\* the chipset is SNB (0x0100) or unknown and the PCH is H110 (0xA143) or
\* unknown, as init leaves them
InitCfg ==
    /\ code \in { << >>, T_snb }
    /\ vid = IF code = << >> THEN 65535 ELSE VID_INTEL
    /\ did = IF code = << >> THEN 65535 ELSE 256
    /\ rid = IF code = << >> THEN 255 ELSE 0
    /\ id = IF code = << >> THEN 0 ELSE 1
    /\ longname = IF code = << >> THEN "UnknownPlatform"
                  ELSE "Desktop 2nd Generation Core Processor (Sandy Bridge CPU / Cougar Point PCH)"
    /\ pch_code \in { << >>, T_pch_ \o T_1xx }
    /\ pch_vid = IF pch_code = << >> THEN 65535 ELSE VID_INTEL
    /\ pch_did = IF pch_code = << >> THEN 65535 ELSE 41283
    /\ pch_rid = IF pch_code = << >> THEN 255 ELSE 0
    /\ pch_id = IF pch_code = << >> THEN 0 ELSE 10001
    /\ pch_longname = IF pch_code = << >> THEN "Default PCH"
                      ELSE "Intel H110 (100 series) PCH"
    /\ helper = [ started |-> FALSE, driver |-> FALSE ]
    /\ call = [ op |-> "__init__" ]
    /\ ncalls = 0
    /\ BareMachine
    /\ Cfg = EmptyCfg
    /\ fs = Files
    /\ loadlog = << >> /\ snapshot = EmptyCfg /\ replay = 0
    /\ pci_space = EmptyDict /\ hw_space = EmptyDict
    /\ hw_log = << >> /\ ret = Zero /\ err = ""
    /\ reg_value = Zero /\ field_value = Zero /\ preserve = FALSE
    /\ orig = [ reg_value |-> Zero, field_value |-> Zero ]
    /\ steps = << >>
    /\ NoCallers
    /\ NoMain

\* init_cfg_xml(fxml, code, pch_code), first pass
InitCfgXml ==
    /\ replay = 0
    /\ Len(loadlog) < MaxLoads
    /\ \E fxml \in fs \cup { F_missing } :
         /\ Cfg' = init_cfg_xml(Cfg, fs, fxml, code, pch_code)
         /\ loadlog' = IF fxml \in fs THEN Append(loadlog, fxml) ELSE loadlog
    /\ UNCHANGED << fs, snapshot, replay >>
    /\ UNCHANGED << sessionvars, envvars, utilvars, rmwvars, hwvars,
                    fieldvars >>

\* init_cfg_xml on the next path of the sequence already loaded; the store is
\* remembered when the second pass begins
InitCfgXmlAgain ==
    /\ loadlog # << >>
    /\ replay < Len(loadlog)
    /\ snapshot' = IF replay = 0 THEN Cfg ELSE snapshot
    /\ Cfg' = init_cfg_xml(Cfg, fs, loadlog[replay + 1], code, pch_code)
    /\ replay' = replay + 1
    /\ UNCHANGED << fs, loadlog >>
    /\ UNCHANGED << sessionvars, envvars, utilvars, rmwvars, hwvars,
                    fieldvars >>

NextCfg == InitCfgXml \/ InitCfgXmlAgain

SpecCfg == InitCfg /\ [][NextCfg]_vars

Categories ==
    { "CONFIG_PCI", "MMIO_BARS", "IO_BARS", "MEMORY_RANGES", "REGISTERS",
      "CONTROLS" }

\* the elements a section gives for a category of the store
ElemsOf(section, cat) ==
    CASE cat = "CONFIG_PCI"    -> section.pci
      [] cat = "MMIO_BARS"     -> section.mmio
      [] cat = "IO_BARS"       -> section.io
      [] cat = "MEMORY_RANGES" -> section.memory
      [] cat = "REGISTERS"     -> section.registers
      [] cat = "CONTROLS"      -> section.controls

\* the attributes an element defines: its own without the name; for a
\* register also the defaults of size and desc, and the map of its fields
\* when it has any
DefinedFields(elem) ==
    [ f \in { elem.fields[i].attrib["name"] : i \in DOMAIN elem.fields } |->
        LET i == CHOOSE i \in DOMAIN elem.fields :
                   /\ elem.fields[i].attrib["name"] = f
                   /\ \A j \in DOMAIN elem.fields :
                        elem.fields[j].attrib["name"] = f => j <= i
            a == elem.fields[i].attrib
        IN  [ k \in (DOMAIN a \ {"name"}) \cup {"desc"} |->
                IF k \in DOMAIN a THEN a[k] ELSE "" ] ]

DefinedAttrs(cat, elem) ==
    LET a == elem.attrib
    IN  IF cat # "REGISTERS"
        THEN [ k \in DOMAIN a \ {"name"} |-> a[k] ]
        ELSE [ k \in (DOMAIN a \ {"name"}) \cup {"size", "desc"}
                     \cup (IF elem.fields # << >> THEN {"FIELDS"} ELSE {}) |->
                 IF k = "FIELDS" THEN DefinedFields(elem)
                 ELSE IF k \in DOMAIN a THEN a[k]
                 ELSE IF k = "size" THEN "0x4" ELSE "" ]

\* a section is for this session: it has no platform attribute, or the
\* attribute in lower case is the chipset code or the PCH code
ForThisPlatform(section) ==
    \/ "platform" \notin DOMAIN section.attrib
    \/ Lower(section.attrib["platform"]) \in { code, pch_code }

\* the elements of a category loaded so far, oldest first
RECURSIVE SectionsElems(_, _)
SectionsElems(sections, cat) ==
    IF sections = << >> THEN << >>
    ELSE (IF ForThisPlatform(Head(sections))
          THEN ElemsOf(Head(sections), cat) ELSE << >>)
         \o SectionsElems(Tail(sections), cat)

RECURSIVE PathsElems(_, _)
PathsElems(paths, cat) ==
    IF paths = << >> THEN << >>
    ELSE SectionsElems(Document(Head(paths)), cat)
         \o PathsElems(Tail(paths), cat)

\* every call of init_cfg_xml made so far, second pass included
History == loadlog \o SubSeq(loadlog, 1, replay)

\* the positions, in the elements loaded, of the definitions of a name
DefsOf(elems, n) ==
    { i \in DOMAIN elems :
        elems[i].attrib["name"] = n /\ "undef" \notin DOMAIN elems[i].attrib }

Max(S) == CHOOSE x \in S : \A y \in S : y <= x

\* C5: a definition of X, then a redefinition, then a removal leave X absent
\* from every category; the removal first, then the definition, then the
\* redefinition leave X present with exactly the redefinition's attributes.
C5_LoadOrderDecides ==
    /\ History = << F_common, F_snb, F_ivb >> =>
         \A cat \in Categories : "X" \notin DOMAIN Cfg[cat]
    /\ History = << F_ivb, F_common, F_snb >> =>
         \A cat \in Categories :
            /\ "X" \in DOMAIN Cfg[cat]
            /\ Cfg[cat]["X"] = DefinedAttrs(cat, ElemsOf(Doc_snb[1], cat)[1])

\* the three documents have been loaded, removal last, and X is gone
C5_Witness ==
    /\ History = << F_common, F_snb, F_ivb >>
    /\ "X" \notin DOMAIN Cfg.REGISTERS
    /\ "Y" \in DOMAIN Cfg.REGISTERS

\* C6: every name present in a category carries exactly the attributes (for a
\* register, with the field map or without one) of the last definition
\* loaded for that name.
C6_LastDefinitionWins ==
    \A cat \in Categories : \A n \in DOMAIN Cfg[cat] :
        LET elems == PathsElems(History, cat)
            defs  == DefsOf(elems, n)
        IN  /\ defs # {}
            /\ Cfg[cat][n] = DefinedAttrs(cat, elems[Max(defs)])

\* the register X of common.xml, which has fields, has been replaced by the
\* register X of snb.xml, which has none and other attributes
C6_Witness ==
    /\ History = << F_common, F_snb >>
    /\ "X" \in DOMAIN Cfg.REGISTERS
    /\ "FIELDS" \notin DOMAIN Cfg.REGISTERS["X"]
    /\ Cfg.REGISTERS["X"]["desc"] = "snb"
    /\ "vid" \notin DOMAIN Cfg.CONFIG_PCI["X"]

\* a document without the sections that are not for this session, the others
\* having lost their platform attribute
RECURSIVE OwnSections(_)
OwnSections(sections) ==
    IF sections = << >> THEN << >>
    ELSE (IF ForThisPlatform(Head(sections))
          THEN << [ Head(sections) EXCEPT !.attrib = NoPlatform ] >>
          ELSE << >>)
         \o OwnSections(Tail(sections))

\* C9: loading a document changes the store exactly as loading its sections
\* that have no platform attribute or whose attribute, in lower case, is the
\* chipset or the PCH code; the other sections change nothing, and a document
\* made of such sections only leaves the store as it was.
C9_SectionScoping ==
    [][ (replay' = 0 /\ loadlog' # loadlog) =>
          LET sections == Document(loadlog'[Len(loadlog')])
          IN  /\ Cfg' = LoadDocument(Cfg, OwnSections(sections), << >>, << >>)
              /\ OwnSections(sections) = << >> => Cfg' = Cfg
              /\ \A i \in DOMAIN sections :
                   ( /\ "platform" \notin DOMAIN sections[i].attrib
                     /\ \A j \in DOMAIN sections : j > i =>
                          ~ForThisPlatform(sections[j]) )
                   => Cfg' = LoadSection(Cfg', sections[i]) ]_vars

\* iommu.xml has been loaded in a session whose chipset code is snb: the
\* section scoped to SNB was applied (W is its W), the sections scoped to ivb
\* and to '' were not
C9_Witness ==
    /\ code = T_snb
    /\ loadlog # << >> /\ loadlog[Len(loadlog)] = F_iommu /\ replay = 0
    /\ "W" \in DOMAIN Cfg.CONFIG_PCI
    /\ Cfg.CONFIG_PCI["W"]["iommu"] = "snb"
    /\ "E" \notin DOMAIN Cfg.CONFIG_PCI
    /\ "Z" \in DOMAIN Cfg.REGISTERS

\* C10: once a sequence of documents has been loaded a second time, the store
\* equals the store the first pass left.
C10_MergeIdempotent ==
    (replay > 0 /\ replay = Len(loadlog)) => Cfg = snapshot

\* a sequence with a definition, a removal and a redefinition has been loaded
\* twice
C10_Witness ==
    /\ loadlog = << F_common, F_ivb, F_snb >>
    /\ replay = 3
    /\ Cfg = snapshot
    /\ "X" \in DOMAIN Cfg.REGISTERS


-----------------------------------------------------------------------------
(* The catalogs. Of the host bridges the three of Sandy Bridge and one of   *)
(* Ivy Bridge are kept, of the PCHs one of the 100 and one of the 200       *)
(* series; a catalog is the sequence of its entries in the order of the     *)
(* source, as a dict keeps them.                                            *)

\* a value that is no text: None
None == << 0 >>

T_XYZ == << 88, 89, 90 >>                         \* "XYZ", a code of no catalog

Chipset_Dictionary ==
    << [ did |-> 256, id |-> 1, code |-> T_SNB,
         longname |-> "Desktop 2nd Generation Core Processor (Sandy Bridge CPU / Cougar Point PCH)" ],
       [ did |-> 260, id |-> 1, code |-> T_SNB,
         longname |-> "Mobile 2nd Generation Core Processor (Sandy Bridge CPU / Cougar Point PCH)" ],
       [ did |-> 264, id |-> 1, code |-> T_SNB,
         longname |-> "Intel Xeon Processor E3-1200 (Sandy Bridge CPU, C200 Series PCH)" ],
       [ did |-> 336, id |-> 3, code |-> T_IVB,
         longname |-> "Desktop 3rd Generation Core Processor (Ivy Bridge CPU / Panther Point PCH)" ] >>

pch_dictionary ==
    << [ did |-> 41283, id |-> 10001, code |-> T_PCH_ \o T_1XX,
         longname |-> "Intel H110 (100 series) PCH" ],
       [ did |-> 41668, id |-> 10002, code |-> T_PCH_ \o T_2XX,
         longname |-> "Intel H270 (200 series) PCH" ] >>

\* key in dictionary, dictionary[key]
HasKey(dictionary, key) ==
    \E i \in DOMAIN dictionary : dictionary[i].did = key
Entry(dictionary, key) ==
    dictionary[CHOOSE i \in DOMAIN dictionary : dictionary[i].did = key]

\* dict([(dictionary[_did]['code'], _did) for _did in dictionary]): of the
\* entries that share a code the last one gives the device id
CodesOf(dictionary) ==
    { dictionary[i].code : i \in DOMAIN dictionary }

\* a mutant of DidOfCode: the device id of the last entry of the catalog,
\* whatever its code
DidOfCode_last_entry(dictionary, c) ==
    dictionary[Len(dictionary)].did

\* Chipset_Code[c]: the device id of the last entry that has the code
DidOfCode(dictionary, c) ==
    LET last == CHOOSE i \in DOMAIN dictionary :
                  /\ dictionary[i].code = c
                  /\ \A j \in DOMAIN dictionary :
                       dictionary[j].code = c => j <= i
    IN  dictionary[last].did

Chipset_Code == [ c \in CodesOf(Chipset_Dictionary) |->
                    DidOfCode(Chipset_Dictionary, c) ]
pch_codes    == [ c \in CodesOf(pch_dictionary) |->
                    DidOfCode(pch_dictionary, c) ]

PCH_CODE_PREFIX == T_PCH_

-----------------------------------------------------------------------------
(* The machine: the devices of PCI enumeration, each <<bus, dev, fun, vid,  *)
(* did>>. A read of the configuration space of a function that is not there *)
(* returns all ones, which is also what detect_platform keeps when the read *)
(* fails.                                                                   *)

Present(enum, b, d, f) ==
    \E i \in DOMAIN enum : << enum[i][1], enum[i][2], enum[i][3] >> = << b, d, f >>
DeviceAt(enum, b, d, f) ==
    enum[CHOOSE i \in DOMAIN enum :
           << enum[i][1], enum[i][2], enum[i][3] >> = << b, d, f >>]

\* detect_platform(): vid, did, rid of 0:0.0 and of 0:31.0
detect_platform(enum) ==
    LET hb  == IF Present(enum, 0, 0, 0)
               THEN [ vid |-> DeviceAt(enum, 0, 0, 0)[4],
                      did |-> DeviceAt(enum, 0, 0, 0)[5], rid |-> 9 ]
               ELSE [ vid |-> 65535, did |-> 65535, rid |-> 255 ]
        pch == IF Present(enum, 0, 31, 0)
               THEN [ vid |-> DeviceAt(enum, 0, 31, 0)[4],
                      did |-> DeviceAt(enum, 0, 31, 0)[5], rid |-> 49 ]
               ELSE [ vid |-> 65535, did |-> 65535, rid |-> 255 ]
    IN  [ vid |-> hb.vid, did |-> hb.did, rid |-> hb.rid,
          pch_vid |-> pch.vid, pch_did |-> pch.did, pch_rid |-> pch.rid ]

\* a Sandy Bridge with a 100 series PCH, the device of common.xml on the
\* buses 2 and 3, and two devices that differ from it in function or in
\* device id; an Ivy Bridge with a 200 series PCH; a host bridge of
\* another vendor whose device id is one of the catalog; nothing to enumerate
Machines ==
    { << <<0, 0, 0, VID_INTEL, 260>>, <<0, 31, 0, VID_INTEL, 41283>>,
         <<2, 31, 0, VID_INTEL, 7184>>, <<3, 31, 0, VID_INTEL, 7185>>,
         <<3, 31, 1, VID_INTEL, 7184>>, <<4, 31, 0, VID_INTEL, 7186>> >>,
      << <<0, 0, 0, VID_INTEL, 336>>, <<0, 31, 0, VID_INTEL, 41668>> >>,
      << <<0, 0, 0, 4130, 256>>, <<0, 31, 0, 4130, 41283>> >>,
      << >> }


-----------------------------------------------------------------------------
(* init_xml_configuration: which files are loaded, and in which order *)

Range(seq) == { seq[i] : i \in DOMAIN seq }

\* os.path.basename(path): what follows the last '/'
RECURSIVE Basename(_)
Basename(path) ==
    IF \E i \in DOMAIN path : path[i] = 47
    THEN Basename(Tail(path))
    ELSE path

\* fnmatch.fnmatch(name, '{}*.xml'.format(prefix)), on names in lower case
fnmatch(name, prefix) ==
    /\ Len(name) >= Len(prefix) + Len(T_xml)
    /\ StartsWith(name, prefix)
    /\ EndsWith(name, T_xml)

\* list.sort() of a list of distinct paths
RECURSIVE SortPaths(_)
SortPaths(S) ==
    IF S = {} THEN << >>
    ELSE LET first == CHOOSE x \in S : \A y \in S \ {x} : StrLess(x, y)
         IN  << first >> \o SortPaths(S \ {first})

\* a mutant of _cfg_files: the files sorted by their name, not by their path
RECURSIVE _cfg_files_by_name(_)
_cfg_files_by_name(fsys) ==
    LET xml == { x \in fsys : fnmatch(Basename(x), << >>) }
    IN  IF xml = {} THEN << >>
        ELSE LET first == CHOOSE x \in xml : \A y \in xml \ {x} :
                              StrLess(Basename(x), Basename(y))
             IN  << first >> \o _cfg_files_by_name(xml \ {first})

\* _cfg_files: the paths of the XML files that os.walk finds, sorted
_cfg_files(fsys) ==
    SortPaths({ x \in fsys : fnmatch(Basename(x), << >>) })

\* a mutant of platform_files: the files of a PCH are not among them
platform_files_without_pch(files) ==
    { x \in Range(files) :
        \E plat \in { Lower(c) : c \in DOMAIN Chipset_Code } :
            fnmatch(Basename(x), plat) }

\* platform_files: the files of any chipset of the catalog, and of any PCH
platform_files(files) ==
    { x \in Range(files) :
        \E plat \in { Lower(c) : c \in DOMAIN Chipset_Code } :
            \/ fnmatch(Basename(x), plat)
            \/ StartsWith(Basename(x), Lower(PCH_CODE_PREFIX)) }

\* loaded_files: common*.xml, then <code>*.xml, then <pch_code>*.xml, then
\* the files that are neither loaded yet nor of a platform
loaded_files(fsys, _code, _pch_code) ==
    LET files  == _cfg_files(fsys)
        common == SelectSeq(files,
                      LAMBDA x : fnmatch(Basename(x), T_common))
        plat   == IF _code # << >>
                  THEN SelectSeq(files, LAMBDA x : fnmatch(Basename(x), _code))
                  ELSE << >>
        pch    == IF _pch_code # << >>
                  THEN SelectSeq(files,
                           LAMBDA x : fnmatch(Basename(x), _pch_code))
                  ELSE << >>
        first  == common \o plat \o pch
    IN  first \o SelectSeq(files,
                     LAMBDA x : /\ x \notin Range(first)
                                /\ x \notin platform_files(files))

\* for _xml in loaded_files: self.init_cfg_xml(_xml, self.code, self.pch_code)
\* ET.parse raises on a file that is not XML, and the loop ends there
RECURSIVE LoadFiles(_, _, _, _, _, _)
LoadFiles(cfg, fsys, bad, files, _code, _pch_code) ==
    IF files = << >>
    THEN [ Cfg |-> cfg, loadlog |-> << >>, raised |-> FALSE ]
    ELSE IF Head(files) \in bad
    THEN [ Cfg |-> cfg, loadlog |-> << >>, raised |-> TRUE ]
    ELSE LET r == LoadFiles(init_cfg_xml(cfg, fsys, Head(files),
                                         _code, _pch_code),
                            fsys, bad, Tail(files), _code, _pch_code)
         IN  [ r EXCEPT !.loadlog = << Head(files) >> \o @ ]


-----------------------------------------------------------------------------
(* init_cfg_bus, init_xml_configuration, init_cfg *)

\* hex(n), on the bus numbers of the machines of this model
HexOf == { <<0, "0x0">>, <<1, "0x1">>, <<2, "0x2">>, <<3, "0x3">>,
           <<4, "0x4">> }
hex(n) == (CHOOSE p \in HexOf : p[1] = n)[2]

\* s.split(','): the texts of this model that hold a comma, and their parts
CommaLists == { << "0x1c10,0x1c11", << "0x1c10", "0x1c11" >> >> }
split(s) ==
    IF \E p \in CommaLists : p[1] = s
    THEN (CHOOSE p \in CommaLists : p[1] = s)[2]
    ELSE << s >>

\* a mutant of bus_list: the device id is not compared
bus_list_any_did(device_data, enum) ==
    LET found == SelectSeq(enum, LAMBDA enum_dev :
                     << int16(device_data["dev"]),
                        int16(device_data["fun"]),
                        int16(device_data["vid"]) >>
                       = << enum_dev[2], enum_dev[3], enum_dev[4] >>)
    IN  [ i \in 1 .. Len(found) |-> hex(found[i][1]) ]

\* bus_list of init_cfg_bus for one device of CONFIG_PCI
bus_list(device_data, enum) ==
    LET did_list == { int16(t) : t \in Range(split(device_data["did"])) }
        found    == SelectSeq(enum, LAMBDA enum_dev :
                        /\ << int16(device_data["dev"]),
                              int16(device_data["fun"]),
                              int16(device_data["vid"]) >>
                             = << enum_dev[2], enum_dev[3], enum_dev[4] >>
                        /\ enum_dev[5] \in did_list)
    IN  [ i \in 1 .. Len(found) |-> hex(found[i][1]) ]

\* init_cfg_bus(): Cfg.BUS[config_device] = bus_list where it is not empty
init_cfg_bus(cfg, enum) ==
    LET declared == { n \in DOMAIN cfg.CONFIG_PCI :
                        /\ "vid" \in DOMAIN cfg.CONFIG_PCI[n]
                        /\ "did" \in DOMAIN cfg.CONFIG_PCI[n]
                        /\ cfg.CONFIG_PCI[n]["vid"] # ""
                        /\ cfg.CONFIG_PCI[n]["did"] # "" }
        bound    == { n \in declared :
                        bus_list(cfg.CONFIG_PCI[n], enum) # << >> }
    IN  [ cfg EXCEPT !.BUS =
            [ n \in DOMAIN cfg.BUS \cup bound |->
                IF n \in bound THEN bus_list(cfg.CONFIG_PCI[n], enum)
                ELSE cfg.BUS[n] ] ]

\* init_xml_configuration(): [Cfg, loadlog, raised]; when a file is not XML
\* the exception leaves before init_cfg_bus and before XML_CONFIG_LOADED
init_xml_configuration(cfg, fsys, bad, enum, _code, _pch_code) ==
    LET r == LoadFiles(cfg, fsys, bad, loaded_files(fsys, _code, _pch_code),
                       _code, _pch_code)
    IN  IF r.raised THEN r
        ELSE [ r EXCEPT !.Cfg = [ init_cfg_bus(r.Cfg, enum)
                                    EXCEPT !.XML_CONFIG_LOADED = TRUE ] ]

\* getattr(module, self.code)(): the store a module chipsec.cfg.<code> makes
ModuleCfg(_code) ==
    [ EmptyCfg EXCEPT !.CONFIG_PCI =
        DictSet(EmptyDict, "MODULE", [ bus |-> "0", dev |-> "0", fun |-> "0" ]) ]

\* init_cfg(): the store of the module of the code replaces Cfg when there is
\* one; then init_xml_configuration, whose exception is caught
init_cfg(cfg, fsys, bad, enum, modules, _code, _pch_code) ==
    LET seeded == IF _code # << >> /\ _code \in modules
                  THEN ModuleCfg(_code) ELSE cfg
    IN  init_xml_configuration(seeded, fsys, bad, enum, _code, _pch_code)


-----------------------------------------------------------------------------
(* The session: a Chipset on one machine, init and destroy called in any    *)
(* order and any number of times.                                           *)

T_txt   == << 46, 116, 120, 116 >>              \* ".txt"
F_notes == T_common \o T_txt                    \* common.txt

\* what chipsec/cfg may hold
CfgDir == Files \cup { F_notes }

\* the installations: what chipsec/cfg holds, which of its files are not
\* XML, and which codes have a module chipsec.cfg.<code>
Installations ==
    { [ fs |-> CfgDir, malformed |-> {}, cfg_modules |-> {} ],
      [ fs |-> CfgDir, malformed |-> {}, cfg_modules |-> { T_snb } ],
      [ fs |-> CfgDir, malformed |-> { F_snb }, cfg_modules |-> {} ],
      [ fs |-> CfgDir, malformed |-> { F_common_z }, cfg_modules |-> {} ],
      [ fs |-> CfgDir \ { F_common, F_pch_1xx }, malformed |-> {},
        cfg_modules |-> {} ],
      [ fs |-> { F_ivb, F_pch_2xx, F_iommu, F_notes }, malformed |-> {},
        cfg_modules |-> {} ] }

\* how many calls of init and destroy a session makes
MaxCalls == 2

InitSession ==
    /\ NewChipset
    /\ enum_devices \in Machines
    /\ \E inst \in Installations :
         /\ fs = inst.fs
         /\ malformed = inst.malformed
         /\ cfg_modules = inst.cfg_modules
    /\ Cfg = EmptyCfg
    /\ loadlog = << >> /\ snapshot = EmptyCfg /\ replay = 0
    /\ pci_space = EmptyDict /\ hw_space = EmptyDict
    /\ hw_log = << >> /\ ret = Zero /\ err = ""
    /\ reg_value = Zero /\ field_value = Zero /\ preserve = FALSE
    /\ orig = [ reg_value |-> Zero, field_value |-> Zero ]
    /\ steps = << >>
    /\ NoCallers
    /\ NoMain

\* 'self.pch_vid == VID_INTEL and self.pch_did in pch_dictionary', for any
\* vendor
pch_in_catalog_any_vendor(v, d) == HasKey(pch_dictionary, d)

\* self.pch_vid == VID_INTEL and self.pch_did in pch_dictionary
pch_in_catalog(v, d) == v = VID_INTEL /\ HasKey(pch_dictionary, d)

\* '_unknown_platform and start_driver', without the second operand
raises_UnknownChipsetError_any(_unknown_platform, start_driver) ==
    _unknown_platform

\* if _unknown_platform and start_driver: raise UnknownChipsetError
raises_UnknownChipsetError(_unknown_platform, start_driver) ==
    _unknown_platform /\ start_driver

\* the body of init(platform_code, req_pch_code, start_driver)
init_call(platform_code, req_pch_code, start_driver) ==
      LET det      == detect_platform(enum_devices)
          explicit == platform_code # None
          known    == explicit /\ platform_code \in DOMAIN Chipset_Code
          vid1     == IF ~explicit THEN det.vid
                      ELSE IF known THEN VID_INTEL ELSE 65535
          did1     == IF ~explicit THEN det.did
                      ELSE IF known THEN Chipset_Code[platform_code]
                      ELSE 65535
          rid1     == IF ~explicit THEN det.rid
                      ELSE IF known THEN 0 ELSE 255
          listed   == HasKey(Chipset_Dictionary, did1)
          _unknown_platform ==
                      \/ IF explicit THEN ~known ELSE VID_INTEL # det.vid
                      \/ ~listed
          code1    == IF listed
                      THEN Lower(Entry(Chipset_Dictionary, did1).code)
                      ELSE code
          pexplicit == req_pch_code # None
          pknown    == pexplicit /\ req_pch_code \in DOMAIN pch_codes
          pch_vid1  == IF ~pexplicit THEN det.pch_vid
                       ELSE IF pknown THEN VID_INTEL ELSE 65535
          pch_did1  == IF ~pexplicit THEN det.pch_did
                       ELSE IF pknown THEN pch_codes[req_pch_code]
                       ELSE 65535
          pch_rid1  == IF ~pexplicit THEN det.pch_rid
                       ELSE IF pknown THEN 0 ELSE 255
          plisted   == pch_in_catalog(pch_vid1, pch_did1)
          pch_code1 == IF plisted
                       THEN Lower(Entry(pch_dictionary, pch_did1).code)
                       ELSE pch_code
          r == init_cfg(Cfg, fs, malformed, enum_devices, cfg_modules,
                        code1, pch_code1)
      IN  /\ helper' = [ started |-> TRUE, driver |-> start_driver ]
          /\ vid' = vid1 /\ did' = did1 /\ rid' = rid1
          /\ code' = code1
          /\ longname' = IF listed
                         THEN Entry(Chipset_Dictionary, did1).longname
                         ELSE "UnknownPlatform"
          /\ id' = IF listed THEN Entry(Chipset_Dictionary, did1).id ELSE id
          /\ pch_vid' = pch_vid1 /\ pch_did' = pch_did1 /\ pch_rid' = pch_rid1
          /\ pch_code' = pch_code1
          /\ pch_longname' = IF plisted
                             THEN Entry(pch_dictionary, pch_did1).longname
                             ELSE "Default PCH"
          /\ pch_id' = IF plisted THEN Entry(pch_dictionary, pch_did1).id
                       ELSE pch_id
          /\ Cfg' = r.Cfg
          /\ loadlog' = r.loadlog
          /\ err' = IF raises_UnknownChipsetError(_unknown_platform,
                                                  start_driver)
                    THEN "UnknownChipsetError" ELSE ""
          /\ call' = [ op |-> "init", platform_code |-> platform_code,
                       req_pch_code |-> req_pch_code,
                       start_driver |-> start_driver ]
          /\ UNCHANGED << envvars, rmwvars, fs, snapshot, replay,
                          fieldvars >>
          /\ UNCHANGED << pci_space, hw_space, hw_log, ret >>

\* init(platform_code, req_pch_code, start_driver), called on the session
init ==
    /\ ncalls < MaxCalls
    /\ ncalls' = ncalls + 1
    /\ \E platform_code \in { None, T_SNB, T_XYZ },
          req_pch_code \in { None, T_PCH_ \o T_1XX, T_XYZ },
          start_driver \in BOOLEAN :
         init_call(platform_code, req_pch_code, start_driver)
    /\ UNCHANGED utilvars

\* destroy(start_driver)
destroy ==
    /\ ncalls < MaxCalls
    /\ ncalls' = ncalls + 1
    /\ \E start_driver \in BOOLEAN :
         call' = [ op |-> "destroy", start_driver |-> start_driver ]
    /\ helper' = [ started |-> FALSE, driver |-> FALSE ]
    /\ err' = ""
    /\ UNCHANGED << identityvars, envvars, utilvars, rmwvars, Cfg, loadvars,
                    fieldvars >>
    /\ UNCHANGED << pci_space, hw_space, hw_log, ret >>

Next == init \/ destroy

Spec == InitSession /\ [][Next]_vars


\* the last call was init: loadlog holds the documents it applied, in order
InitDone == call.op = "init"

\* the phase a file belongs to, by its name and the codes of the session
PhaseOf(x) ==
    IF fnmatch(Basename(x), T_common) THEN 1
    ELSE IF code # << >> /\ fnmatch(Basename(x), code) THEN 2
    ELSE IF pch_code # << >> /\ fnmatch(Basename(x), pch_code) THEN 3
    ELSE 4

\* a file whose name begins with the code (in lower case, as file names are)
\* of a chipset of the catalog that is not the chipset of the session
OfOtherChipset(x) ==
    \E c \in CodesOf(Chipset_Dictionary) :
        /\ Lower(c) # code
        /\ StartsWith(Basename(x), Lower(c))

\* a file whose name begins with the PCH prefix and not with the PCH code of
\* the session
OfOtherPch(x) ==
    /\ StartsWith(Basename(x), Lower(PCH_CODE_PREFIX))
    /\ ~ (pch_code # << >> /\ StartsWith(Basename(x), pch_code))

\* the documents init selects: the XML files of one of the first three
\* phases, and the others that are of no other platform
Eligible ==
    { x \in fs : /\ fnmatch(Basename(x), << >>)
                 /\ \/ PhaseOf(x) < 4
                    \/ ~ OfOtherChipset(x) /\ ~ OfOtherPch(x) }

\* C7 (as stated): init applies the documents phase by phase (common, chipset
\* code, PCH code, the rest) and, inside a phase, in the lexicographic order
\* of their file names.
C7_FileNameOrderAsStated ==
    InitDone =>
        \A i, j \in DOMAIN loadlog :
            i < j =>
                \/ PhaseOf(loadlog[i]) < PhaseOf(loadlog[j])
                \/ /\ PhaseOf(loadlog[i]) = PhaseOf(loadlog[j])
                   /\ StrLess(Basename(loadlog[i]), Basename(loadlog[j]))

\* C7 (amended): init applies the documents phase by phase (common, chipset
\* code, PCH code, the rest; the chipset phase and the PCH phase only when the
\* code is not empty) and, inside a phase, in the lexicographic order of
\* their paths; every document applied is a selected one, each is applied
\* once, and all of them are applied when none of them is malformed.
C7_PhaseAndPathOrder ==
    InitDone =>
        /\ \A i, j \in DOMAIN loadlog :
              i < j =>
                  \/ PhaseOf(loadlog[i]) < PhaseOf(loadlog[j])
                  \/ /\ PhaseOf(loadlog[i]) = PhaseOf(loadlog[j])
                     /\ StrLess(loadlog[i], loadlog[j])
        /\ Range(loadlog) \subseteq Eligible
        /\ Eligible \cap malformed = {} => Range(loadlog) = Eligible

\* an init on Sandy Bridge with a 100 series PCH that applied documents of
\* the four phases, two of them common, one in a subdirectory
C7_Witness ==
    /\ InitDone
    /\ code = T_snb /\ pch_code = T_pch_ \o T_1xx
    /\ loadlog = << F_common_z, F_common, F_snb, F_pch_1xx, F_iommu >>

\* C8: init applies no document whose file name begins with the code of a
\* catalog chipset other than the session's, and none whose file name begins
\* with the PCH prefix without matching the PCH code of the session.
C8_OtherPlatformNeverLoaded ==
    InitDone =>
        \A i \in DOMAIN loadlog :
            ~ OfOtherChipset(loadlog[i]) /\ ~ OfOtherPch(loadlog[i])

\* an init on Sandy Bridge with a 100 series PCH, with the files of Ivy
\* Bridge and of the 200 series PCH in the directory, that reached the last
\* phase
C8_Witness ==
    /\ InitDone
    /\ code = T_snb /\ pch_code = T_pch_ \o T_1xx
    /\ { F_ivb, F_pch_2xx } \subseteq fs
    /\ F_snb \in Range(loadlog) /\ F_iommu \in Range(loadlog)
    /\ F_ivb \notin Range(loadlog) /\ F_pch_2xx \notin Range(loadlog)


\* C11 (as stated): when a selected document is malformed, init still applies
\* every other selected document, before and after it in the load order, and
\* still runs bus resolution (after which XML_CONFIG_LOADED is set).
C11_OnlyThatDocumentAborted ==
    (InitDone /\ Eligible \cap malformed # {}) =>
        /\ Range(loadlog) = Eligible \ malformed
        /\ Cfg.XML_CONFIG_LOADED


\* whether a device descriptor declares a vendor id and device ids
Declares(device_data) ==
    /\ "vid" \in DOMAIN device_data /\ device_data["vid"] # ""
    /\ "did" \in DOMAIN device_data /\ device_data["did"] # ""

\* the bus numbers, in enumeration order, of the enumerated devices that a
\* descriptor matches
RECURSIVE BusesOf(_, _)
BusesOf(device_data, enum) ==
    IF enum = << >> THEN << >>
    ELSE LET e    == Head(enum)
             hit  == /\ e[2] = int16(device_data["dev"])
                     /\ e[3] = int16(device_data["fun"])
                     /\ e[4] = int16(device_data["vid"])
                     /\ \E t \in Range(split(device_data["did"])) :
                            int16(t) = e[5]
         IN  (IF hit THEN << e[1] >> ELSE << >>)
                 \o BusesOf(device_data, Tail(enum))

\* the binding of a device, as bus numbers; none is the empty sequence
BindingOf(cfg, n) ==
    IF n \in DOMAIN cfg.BUS
    THEN [ i \in DOMAIN cfg.BUS[n] |-> int16(cfg.BUS[n][i]) ]
    ELSE << >>

\* the first call of the session was init, and it went through bus
\* resolution
FirstInitResolved ==
    InitDone /\ ncalls = 1 /\ Eligible \cap malformed = {}

\* C12: after the bus resolution of init, the binding of every device that
\* declares a vendor id and device ids is the sequence, in enumeration order,
\* of the buses of the enumerated devices with its device number, function
\* number and vendor id and with one of its device ids; a device that
\* declares no vendor id or no device id has no binding; with nothing
\* enumerated there is no binding at all, and the configuration is loaded.
C12_BusBindings ==
    FirstInitResolved =>
        /\ \A n \in DOMAIN Cfg.CONFIG_PCI :
              IF Declares(Cfg.CONFIG_PCI[n])
              THEN BindingOf(Cfg, n) = BusesOf(Cfg.CONFIG_PCI[n], enum_devices)
              ELSE n \notin DOMAIN Cfg.BUS
        /\ DOMAIN Cfg.BUS \subseteq DOMAIN Cfg.CONFIG_PCI
        /\ enum_devices = << >> => Cfg.BUS = EmptyDict
        /\ Cfg.XML_CONFIG_LOADED

\* an init after which the device of common.xml is bound to the buses 2 and
\* 3, of the five devices enumerated at device 31, and a device that declares
\* no ids is not bound
C12_Witness ==
    /\ FirstInitResolved
    /\ "X" \in DOMAIN Cfg.BUS /\ Cfg.BUS["X"] = << "0x2", "0x3" >>
    /\ "Z" \in DOMAIN Cfg.CONFIG_PCI /\ "Z" \notin DOMAIN Cfg.BUS
    /\ Len(enum_devices) = 6

-----------------------------------------------------------------------------
(* Register access by name: fields, register dicts and controls *)

\* read_register_field(reg_name, field_name, preserve_field_position,
\* cpu_thread): [value, txns, err]
read_register_field(cfg, hw, reg_name, field_name, keep, cpu_thread) ==
    LET r == read_register(cfg, hw, reg_name, cpu_thread, 0)
    IN  IF r.err # "" THEN r
        ELSE [ value |-> get_register_field(cfg, reg_name, r.value,
                                            field_name, keep),
               txns  |-> r.txns, err |-> "" ]

\* write_register_field(reg_name, field_name, field_value,
\* preserve_field_position, cpu_thread): [hw, txns, err]
write_register_field(cfg, hw, reg_name, field_name, fieldval, keep, cpu_thread) ==
    LET r == read_register(cfg, hw, reg_name, cpu_thread, 0)
        reg_value_new == set_register_field(cfg, reg_name, r.value,
                                            field_name, fieldval, keep)
        w == write_register(cfg, hw, reg_name, reg_value_new, cpu_thread, 0)
    IN  IF r.err # "" THEN [ hw |-> hw, txns |-> r.txns, err |-> r.err ]
        ELSE [ hw |-> w.hw, txns |-> r.txns \o w.txns, err |-> w.err ]

\* the dict read_register_dict returns, which is the dict the store holds:
\* the value read is added to it and every field gets integer bit and size
\* and its value
RegisterDict(reg_def, regval) ==
    LET fields == reg_def["FIELDS"]
        conv(f) ==
            LET field_bit  == int(fields[f]["bit"])
                field_size == int(fields[f]["size"])
            IN  DictSet(DictSet(DictSet(fields[f],
                    "bit", PyInt(field_bit)), "size", PyInt(field_size)),
                    "value", And(Shr(regval, field_bit), FieldMask(field_size)))
        result == DictSet(reg_def, "value", regval)
    IN  IF "FIELDS" \in DOMAIN reg_def
        THEN DictSet(result, "FIELDS", [ f \in DOMAIN fields |-> conv(f) ])
        ELSE result

\* read_register_dict(reg_name): [value, txns, err, cfg]; cfg is the store
\* afterwards
read_register_dict(cfg, hw, reg_name) ==
    LET r       == read_register(cfg, hw, reg_name, 0, 0)
        reg_def == get_register_def(cfg, reg_name, 0)
        result  == RegisterDict(reg_def, r.value)
    IN  IF r.err # ""
        THEN [ value |-> NoValue, txns |-> r.txns, err |-> r.err,
               cfg |-> StoreAfterDef(cfg, reg_name, 0) ]
        ELSE [ value |-> IF "FIELDS" \in DOMAIN reg_def THEN result
                         ELSE NoValue,
               txns  |-> r.txns,
               err   |-> IF "FIELDS" \in DOMAIN reg_def THEN "" ELSE "KeyError",
               cfg   |-> [ cfg EXCEPT !.REGISTERS = DictSet(@, reg_name, result) ] ]

\* get_control(control_name, cpu_thread): [value, txns, err]
get_control(cfg, hw, control_name, cpu_thread) ==
    LET control  == cfg.CONTROLS[control_name]
        reg      == control["register"]
        field    == control["field"]
        reg_data == read_register(cfg, hw, reg, 0, 0)
    IN  IF reg_data.err # "" THEN reg_data
        ELSE [ value |-> get_register_field(cfg, reg, reg_data.value, field,
                                            FALSE),
               txns  |-> reg_data.txns, err |-> "" ]

\* set_control(control_name, control_value, cpu_thread): [hw, txns, err];
\* cpu_thread is the fourth positional argument of write_register_field,
\* which is preserve_field_position
set_control(cfg, hw, control_name, control_value, cpu_thread) ==
    LET control == cfg.CONTROLS[control_name]
        reg     == control["register"]
        field   == control["field"]
    IN  write_register_field(cfg, hw, reg, field, control_value,
                             cpu_thread # 0, 0)

-----------------------------------------------------------------------------
(* A session after init, on a store that holds a register of every type, a  *)
(* device found on two buses and two controls; every call may meet a        *)
(* transport that fails.                                                     *)

\* DEV is declared on bus 0 and was found on buses 2 and 3.  PC and MC are
\* registers of DEV, MS is an MSR; XR has a type the dispatcher does not know.
AccessCfg ==
    [ EmptyCfg EXCEPT
        !.CONFIG_PCI = DictSet(EmptyDict, "DEV",
            [ bus |-> "0", dev |-> "0x1f", fun |-> "0", vid |-> "0x8086",
              did |-> "0x1c10" ]),
        !.BUS = DictSet(EmptyDict, "DEV", << "0x2", "0x3" >>),
        !.REGISTERS =
            [ PC |-> [ type |-> "pcicfg", device |-> "DEV", offset |-> "0x40",
                       size |-> "0x4", desc |-> "",
                       FIELDS |-> [ LOCK |-> [ bit |-> "0", size |-> "1",
                                               desc |-> "" ],
                                    BASE |-> [ bit |-> "4", size |-> "2",
                                               desc |-> "" ] ] ],
              MC |-> [ type |-> "mmcfg", device |-> "DEV", offset |-> "0x44",
                       size |-> "0x4", desc |-> "" ],
              MS |-> [ type |-> "msr", msr |-> "0x3a", size |-> "0x4",
                       desc |-> "",
                       FIELDS |-> [ EN |-> [ bit |-> "1", size |-> "2",
                                             desc |-> "" ] ] ],
              MM |-> [ type |-> "mmio", bar |-> "BAR", offset |-> "0x4",
                       size |-> "0x4", desc |-> "" ],
              IO |-> [ type |-> "io", port |-> "0x50", size |-> "0x2",
                       desc |-> "" ],
              IB |-> [ type |-> "iobar", bar |-> "BAR", offset |-> "0x8",
                       size |-> "0x1", desc |-> "" ],
              SB |-> [ type |-> "msgbus", port |-> "0x4", offset |-> "0x8",
                       size |-> "0x4", desc |-> "" ],
              MB |-> [ type |-> "mm_msgbus", port |-> "0x4", offset |-> "0x8",
                       size |-> "0x4", desc |-> "" ],
              XR |-> [ type |-> "memory", access |-> "dram",
                       address |-> "0x100", size |-> "0x4", desc |-> "" ] ],
        !.CONTROLS =
            [ MsEnable |-> [ register |-> "MS", field |-> "EN", desc |-> "" ],
              PcBase   |-> [ register |-> "PC", field |-> "BASE", desc |-> "" ] ],
        !.XML_CONFIG_LOADED = TRUE ]

\* what the hardware holds at first: function 31.0 of buses 0, 2 and 3 holds
\* different bytes at 0x40 and 0x44, the MSR differs between the two threads
AccessPci ==
    [ bdf \in { <<0, 31, 0>>, <<2, 31, 0>>, <<3, 31, 0>> } |->
        CASE bdf[1] = 0 -> Or(Shl({2}, 8 * 64), Shl({0}, 8 * 68))
          [] bdf[1] = 2 -> Or(Shl({0, 7, 31}, 8 * 64), Shl({1}, 8 * 68))
          [] bdf[1] = 3 -> Or(Shl({1, 5}, 8 * 64), Shl({2}, 8 * 68)) ]
AccessCells ==
    DictSet(DictSet(EmptyDict, << "msr", "", 0, 58 >>, {1, 40}),
            << "msr", "", 1, 58 >>, {2, 33})

\* the arguments the calls are made with: a thread and a bus index where the
\* register has one (thread 0 and bus index 0 are the defaults), a value of
\* one bit or of 64, and the transport call that fails (0: none)
Threads      == {0, 1}
BusIndexes   == {0, 1, 2}
AccessValues == { One, 0 .. 63 }
FailPoints   == {0, 1}
ThreadsOf(reg_name) ==
    IF AccessCfg.REGISTERS[reg_name]["type"] = "msr" THEN Threads ELSE {0}
BusIndexesOf(reg_name) ==
    IF "device" \in DOMAIN AccessCfg.REGISTERS[reg_name] THEN BusIndexes
    ELSE {0}

InitAccess ==
    /\ code = T_snb /\ vid = VID_INTEL /\ did = 256 /\ rid = 9 /\ id = 1
    /\ longname = "Desktop 2nd Generation Core Processor (Sandy Bridge CPU / Cougar Point PCH)"
    /\ pch_code = T_pch_ \o T_1xx /\ pch_vid = VID_INTEL /\ pch_did = 41283
    /\ pch_rid = 49 /\ pch_id = 10001
    /\ pch_longname = "Intel H110 (100 series) PCH"
    /\ helper = [ started |-> TRUE, driver |-> TRUE ]
    /\ call = [ op |-> "init" ]
    /\ ncalls = 0
    /\ BareMachine
    /\ Cfg = AccessCfg
    /\ fs = {} /\ loadlog = << >> /\ snapshot = EmptyCfg /\ replay = 0
    /\ pci_space = AccessPci /\ hw_space = AccessCells
    /\ hw_log = << >> /\ ret = Zero /\ err = ""
    /\ reg_value = Zero /\ field_value = Zero /\ preserve = FALSE
    /\ orig = [ reg_value |-> Zero, field_value |-> Zero ]
    /\ steps = << >>
    /\ NoCallers
    /\ NoMain

\* logger().error of get_register_def: the bus index is not one of the buses
\* the device was found on
BusIndexNotFound(cfg, reg_name, bus_index) ==
    LET reg_def == cfg.REGISTERS[reg_name]
    IN  /\ reg_def["type"] \in {"pcicfg", "mmcfg"}
        /\ "device" \in DOMAIN reg_def
        /\ reg_def["device"] \in DOMAIN cfg.CONFIG_PCI
        /\ reg_def["device"] \in DOMAIN cfg.BUS
        /\ ~ (bus_index < Len(cfg.BUS[reg_def["device"]]))

Reports(cfg, reg_name, bus_index) ==
    IF BusIndexNotFound(cfg, reg_name, bus_index)
    THEN << [ op |-> "logger.error", msg |-> "Bus index not found" ] >>
    ELSE << >>

\* the transport calls of a log
Transactions(log) == SelectSeq(log, LAMBDA e : e.op # "logger.error")

\* a mutant of Outcome: a failed transport call counts as a read of 0 and the
\* operation goes on
Outcome_swallowing(c, r, reports, cfg0, cfg1, fail_at) ==
    /\ ncalls < MaxCalls
    /\ fail_at <= Len(r.txns)
    /\ LET hw == ApplyTxns(Hardware(pci_space, hw_space), r.txns)
       IN  /\ pci_space' = hw.pci
           /\ hw_space' = hw.cells
           /\ hw_log' = reports \o r.txns
           /\ ret' = IF r.err # "" THEN NoValue
                     ELSE IF fail_at # 0 THEN Zero ELSE r.value
           /\ err' = r.err
           /\ Cfg' = cfg1
    /\ call' = c
    /\ ncalls' = ncalls + 1
    /\ UNCHANGED << identityvars, helper, envvars, utilvars, rmwvars, loadvars,
                    fieldvars >>

\* One call c of the API.  r is what the operation does when no transport
\* call fails; fail_at is the transport call that raises (0: none).  Nothing
\* of the code catches: the calls before the failing one have taken effect,
\* those after it are never made, and the caller gets the exception, not a
\* value.  cfg0 is the store once the first get_register_def has run, cfg1
\* the store when the operation has run to its end.
Outcome(c, r, reports, cfg0, cfg1, fail_at) ==
    /\ ncalls < MaxCalls
    /\ fail_at <= Len(r.txns)
    /\ LET failed == fail_at # 0
           issued == IF failed THEN SubSeq(r.txns, 1, fail_at) ELSE r.txns
           done   == IF failed THEN SubSeq(r.txns, 1, fail_at - 1) ELSE r.txns
           hw     == ApplyTxns(Hardware(pci_space, hw_space), done)
       IN  /\ pci_space' = hw.pci
           /\ hw_space' = hw.cells
           /\ hw_log' = reports \o issued
           /\ ret' = IF failed \/ r.err # "" THEN NoValue ELSE r.value
           /\ err' = IF failed THEN "TransportError" ELSE r.err
           /\ Cfg' = IF failed THEN cfg0 ELSE cfg1
    /\ call' = c
    /\ ncalls' = ncalls + 1
    /\ UNCHANGED << identityvars, helper, envvars, utilvars, rmwvars, loadvars,
                    fieldvars >>

\* the hardware of the current state
Hw == Hardware(pci_space, hw_space)

\* the fields of a register
FieldsOfReg(reg_name) ==
    IF "FIELDS" \in DOMAIN AccessCfg.REGISTERS[reg_name]
    THEN DOMAIN AccessCfg.REGISTERS[reg_name]["FIELDS"] ELSE {}

\* read_register(reg_name, cpu_thread, bus_index)
AccessRead ==
    \E reg_name \in DOMAIN Cfg.REGISTERS, fail_at \in FailPoints :
    \E cpu_thread \in ThreadsOf(reg_name), bus_index \in BusIndexesOf(reg_name) :
      LET r == read_register(Cfg, Hw, reg_name, cpu_thread, bus_index)
          cfg1 == StoreAfterDef(Cfg, reg_name, bus_index)
      IN  Outcome([ op |-> "read_register", reg |-> reg_name,
                    cpu_thread |-> cpu_thread, bus_index |-> bus_index,
                    fail_at |-> fail_at ],
                  r, Reports(Cfg, reg_name, bus_index), cfg1, cfg1, fail_at)

\* write_register(reg_name, reg_value, cpu_thread, bus_index)
AccessWrite ==
    \E reg_name \in DOMAIN Cfg.REGISTERS, fail_at \in FailPoints :
    \E cpu_thread \in ThreadsOf(reg_name), bus_index \in BusIndexesOf(reg_name) :
      LET value == 0 .. 63
          w == write_register(Cfg, Hw, reg_name, value, cpu_thread, bus_index)
          cfg1 == StoreAfterDef(Cfg, reg_name, bus_index)
      IN  Outcome([ op |-> "write_register", reg |-> reg_name,
                    value |-> value, cpu_thread |-> cpu_thread,
                    bus_index |-> bus_index, fail_at |-> fail_at ],
                  [ value |-> NoValue, txns |-> w.txns, err |-> w.err ],
                  Reports(Cfg, reg_name, bus_index), cfg1, cfg1, fail_at)

\* read_register_field(reg_name, field_name, preserve_field_position,
\* cpu_thread)
ReadRegisterField ==
    \E reg_name \in DOMAIN Cfg.REGISTERS, keep \in BOOLEAN,
       fail_at \in FailPoints :
      \E field_name \in FieldsOfReg(reg_name), cpu_thread \in ThreadsOf(reg_name) :
        LET r == read_register_field(Cfg, Hw, reg_name, field_name, keep,
                                     cpu_thread)
            cfg1 == StoreAfterDef(Cfg, reg_name, 0)
        IN  Outcome([ op |-> "read_register_field", reg |-> reg_name,
                      field |-> field_name, preserve |-> keep,
                      cpu_thread |-> cpu_thread, fail_at |-> fail_at ],
                    r, << >>, cfg1, cfg1, fail_at)

\* write_register_field(reg_name, field_name, field_value,
\* preserve_field_position, cpu_thread)
WriteRegisterField ==
    \E reg_name \in DOMAIN Cfg.REGISTERS, keep \in BOOLEAN,
       value \in AccessValues, fail_at \in FailPoints :
      \E field_name \in FieldsOfReg(reg_name), cpu_thread \in ThreadsOf(reg_name) :
        LET w == write_register_field(Cfg, Hw, reg_name, field_name, value,
                                      keep, cpu_thread)
            cfg1 == StoreAfterDef(Cfg, reg_name, 0)
        IN  Outcome([ op |-> "write_register_field", reg |-> reg_name,
                      field |-> field_name, value |-> value,
                      preserve |-> keep, cpu_thread |-> cpu_thread,
                      fail_at |-> fail_at ],
                    [ value |-> NoValue, txns |-> w.txns, err |-> w.err ],
                    << >>, cfg1, cfg1, fail_at)

\* read_register_dict(reg_name)
ReadRegisterDict ==
    \E reg_name \in { "PC", "MC", "MS" }, fail_at \in FailPoints :
      LET r == read_register_dict(Cfg, Hw, reg_name)
      IN  Outcome([ op |-> "read_register_dict", reg |-> reg_name,
                    fail_at |-> fail_at ],
                  r, << >>, StoreAfterDef(Cfg, reg_name, 0), r.cfg, fail_at)

\* get_control(control_name, cpu_thread)
GetControl ==
    \E control_name \in DOMAIN Cfg.CONTROLS, cpu_thread \in Threads,
       fail_at \in FailPoints :
      LET r == get_control(Cfg, Hw, control_name, cpu_thread)
          cfg1 == StoreAfterDef(Cfg, Cfg.CONTROLS[control_name]["register"], 0)
      IN  Outcome([ op |-> "get_control", control |-> control_name,
                    cpu_thread |-> cpu_thread, fail_at |-> fail_at ],
                  r, << >>, cfg1, cfg1, fail_at)

\* set_control(control_name, control_value, cpu_thread)
SetControl ==
    \E control_name \in DOMAIN Cfg.CONTROLS, value \in AccessValues,
       cpu_thread \in Threads, fail_at \in FailPoints :
      LET w == set_control(Cfg, Hw, control_name, value, cpu_thread)
          cfg1 == StoreAfterDef(Cfg, Cfg.CONTROLS[control_name]["register"], 0)
      IN  Outcome([ op |-> "set_control", control |-> control_name,
                    value |-> value, cpu_thread |-> cpu_thread,
                    fail_at |-> fail_at ],
                  [ value |-> NoValue, txns |-> w.txns, err |-> w.err ],
                  << >>, cfg1, cfg1, fail_at)

NextAccess ==
    \/ AccessRead
    \/ AccessWrite
    \/ ReadRegisterField
    \/ WriteRegisterField
    \/ ReadRegisterDict
    \/ GetControl
    \/ SetControl

SpecAccess == InitAccess /\ [][NextAccess]_vars

-----------------------------------------------------------------------------
(* Claims on register access by name *)

\* the last call was a read_register or write_register of a register that
\* names a device
DeviceAccess ==
    /\ call.op \in { "read_register", "write_register" }
    /\ "device" \in DOMAIN Cfg.REGISTERS[call.reg]

\* the device of the register last accessed, the buses it was found on
DeviceOfCall == Cfg.REGISTERS[call.reg]["device"]
BoundBuses   == Cfg.BUS[DeviceOfCall]

\* C13: an access to a pcicfg or mmcfg register of a device that has a bus
\* binding goes, in one transaction, to the bus_index-th bus the device was
\* found on when bus_index is within the binding, with no error reported; when
\* bus_index is out of range an error is reported first and the access is
\* then made on the bus the device declares, and it does not fail for that.
\* This holds whatever accesses were made before.
C13_BusOfAccess ==
    DeviceAccess =>
        LET txns == Transactions(hw_log)
            dev  == Cfg.CONFIG_PCI[DeviceOfCall]
        IN  /\ Len(txns) = 1
            /\ txns[1].dev = int16(dev["dev"])
            /\ txns[1].fun = int16(dev["fun"])
            /\ IF call.bus_index < Len(BoundBuses)
               THEN /\ txns[1].bus = int16(BoundBuses[call.bus_index + 1])
                    /\ hw_log = txns
               ELSE /\ txns[1].bus = int16(dev["bus"])
                    /\ Len(hw_log) = 2
                    /\ hw_log[1].op = "logger.error"
                    /\ hw_log[2] = txns[1]
            /\ (call.fail_at = 0 => err = "")

\* bus index 2 of two buses, after a write with bus index 1 has filled the
\* register on bus 3: the error is reported and the register of bus 0 is read
C13_Witness ==
    /\ DeviceAccess
    /\ call.op = "read_register" /\ call.reg = "PC" /\ call.bus_index = 2
    /\ PciRead(pci_space, 3, 31, 0, 64, 4) = 0 .. 31
    /\ hw_log[1].op = "logger.error"
    /\ hw_log[2].bus = 0
    /\ ret = {2} /\ err = ""


\* the last call was a read_register or write_register of a register whose
\* type is none of the eight of RegisterType
UnknownTypeAccess ==
    /\ call.op \in { "read_register", "write_register" }
    /\ Cfg.REGISTERS[call.reg]["type"] \notin RegisterType

\* C14: read_register and write_register of a register whose type is not one
\* of pcicfg, mmcfg, mmio, msr, io, iobar, msgbus, mm_msgbus fail with
\* RegisterTypeNotFoundError: no value is returned and no transaction is
\* issued.
C14_UnknownTypeFails ==
    UnknownTypeAccess =>
        /\ err = "RegisterTypeNotFoundError"
        /\ ret = NoValue
        /\ hw_log = << >>

\* the second call of a session is a write of the register of type "memory"
C14_Witness ==
    /\ UnknownTypeAccess
    /\ ncalls = 2
    /\ call.op = "write_register" /\ call.reg = "XR"
    /\ Cfg.REGISTERS["XR"]["type"] = "memory"
    /\ err = "RegisterTypeNotFoundError"


\* the last call met a transport call that failed
TransportFailed == call.op # "init" /\ call.fail_at # 0

\* C15: when a transport call fails during read_register, write_register,
\* read_register_field, write_register_field, read_register_dict, get_control
\* or set_control, the call fails: the caller gets the transport's error and
\* no value, not the 0 reg_value starts from, and no transport call follows
\* the failed one (a field write or set_control whose register read failed
\* writes nothing).
C15_TransportFailurePropagates ==
    TransportFailed =>
        /\ err = "TransportError"
        /\ ret = NoValue
        /\ ret # Zero
        /\ Len(Transactions(hw_log)) = call.fail_at

\* set_control on the MSR control whose register read fails
C15_Witness ==
    /\ TransportFailed
    /\ call.op = "set_control" /\ call.control = "MsEnable"
    /\ hw_log = << TxnH("read_msr", << "msr", "", 0, 58 >>) >>
    /\ err = "TransportError"


\* the transport calls that read, those that write
ReadCalls ==
    { "read_byte", "read_word", "read_dword", "read_mmcfg_reg",
      "read_MMIO_BAR_reg", "read_msr", "_read_port", "read_IO_BAR_reg",
      "msgbus_reg_read", "mm_msgbus_reg_read" }
WriteCalls ==
    { "write_byte", "write_word", "write_dword", "write_mmcfg_reg",
      "write_MMIO_BAR_reg", "write_msr", "_write_port", "write_IO_BAR_reg",
      "msgbus_reg_write", "mm_msgbus_reg_write" }

\* two transport calls address the same register
SameTarget(t, u) ==
    IF "addr" \in DOMAIN t
    THEN "addr" \in DOMAIN u /\ t.addr = u.addr
    ELSE /\ "addr" \notin DOMAIN u
         /\ << t.bus, t.dev, t.fun, t.off >> = << u.bus, u.dev, u.fun, u.off >>

\* the bits of a field in its register
FieldBits(cfg, reg_name, field_name) ==
    LET field_attrs == cfg.REGISTERS[reg_name]["FIELDS"][field_name]
    IN  Shl(FieldMask(int(field_attrs["size"])), int(field_attrs["bit"]))

\* C16: a write_register_field(reg, field, v) that runs to its end issues
\* exactly two transport calls, a read of the register and then a write of
\* the same register, and the value written differs from the value the
\* register held, which is the value read, only in the bits of the field.
C16_ReadModifyWrite ==
    [][ (call'.op = "write_register_field" /\ call'.fail_at = 0) =>
          LET before == read_register(Cfg, Hw, call'.reg, call'.cpu_thread, 0).value
              after  == read_register(Cfg', Hardware(pci_space', hw_space'),
                                      call'.reg, call'.cpu_thread, 0).value
          IN  /\ Len(hw_log') = 2
              /\ hw_log'[1].op \in ReadCalls
              /\ hw_log'[2].op \in WriteCalls
              /\ SameTarget(hw_log'[1], hw_log'[2])
              /\ AndNot(before, FieldBits(Cfg, call'.reg, call'.field))
                   = AndNot(hw_log'[2].value,
                            FieldBits(Cfg, call'.reg, call'.field))
              /\ after = hw_log'[2].value
      ]_vars

\* the first call sets BASE (bits 4-5) of the register that held bits 0, 7
\* and 31: one read_dword, one write_dword of bits 0, 4, 7 and 31
C16_Witness ==
    /\ ncalls = 1
    /\ call.op = "write_register_field" /\ call.fail_at = 0
    /\ call.reg = "PC" /\ call.field = "BASE" /\ call.value = One
    /\ ~ call.preserve
    /\ hw_log = << Txn("read_dword", 2, 31, 0, 64),
                   TxnW("write_dword", 2, 31, 0, 64, {0, 4, 7, 31}) >>

-----------------------------------------------------------------------------
(* Two callers inside write_register_field on the same register, each on a  *)
(* field of its own.  write_register_field is a read_register, then a       *)
(* set_register_field on the value read and a write_register: another       *)
(* caller may run between the two.  The code takes no lock; callers that    *)
(* serialize do it themselves, around the whole call.                        *)

Callers == { "A", "B" }

\* caller A writes LOCK (bit 0), caller B writes BASE (bits 4-5) of PC
RmwReg == "PC"
RmwField(c) == IF c = "A" THEN "LOCK" ELSE "BASE"

\* what the register holds before: bits in both fields and outside them
RmwContents == { {7, 31}, {0, 5, 7, 31} }

InitRmw ==
    /\ code = T_snb /\ vid = VID_INTEL /\ did = 256 /\ rid = 9 /\ id = 1
    /\ longname = "Desktop 2nd Generation Core Processor (Sandy Bridge CPU / Cougar Point PCH)"
    /\ pch_code = T_pch_ \o T_1xx /\ pch_vid = VID_INTEL /\ pch_did = 41283
    /\ pch_rid = 49 /\ pch_id = 10001
    /\ pch_longname = "Intel H110 (100 series) PCH"
    /\ helper = [ started |-> TRUE, driver |-> TRUE ]
    /\ call = [ op |-> "init" ]
    /\ ncalls = 0
    /\ BareMachine
    /\ Cfg = AccessCfg
    /\ fs = {} /\ loadlog = << >> /\ snapshot = EmptyCfg /\ replay = 0
    /\ \E bits \in RmwContents :
         pci_space = [ AccessPci EXCEPT ![<< 2, 31, 0 >>] = Shl(bits, 8 * 64) ]
    /\ hw_space = AccessCells
    /\ hw_log = << >> /\ ret = Zero /\ err = ""
    /\ reg_value = Zero /\ field_value = Zero /\ preserve = FALSE
    /\ orig = [ reg_value |-> Zero, field_value |-> Zero ]
    /\ steps = << >>
    /\ NoMain
    /\ \E va \in { Zero, One }, vb \in { Zero, {0}, {1}, {0, 1} } :
         callers = [ c \in Callers |->
                       [ pc |-> "called", reg_value |-> Zero,
                         field_value |-> IF c = "A" THEN va ELSE vb ] ]
    /\ \E used \in BOOLEAN : lock = [ used |-> used, holder |-> "" ]

\* a mutant of RmwRead: the caller does not wait for the lock
RmwRead_unlocked(c) ==
    /\ callers[c].pc = "called"
    /\ LET r == read_register(Cfg, Hw, RmwReg, 0, 0)
       IN  /\ callers' = [ callers EXCEPT ![c].pc = "read",
                                          ![c].reg_value = r.value ]
           /\ hw_log' = hw_log \o r.txns
    /\ lock' = lock
    /\ Cfg' = StoreAfterDef(Cfg, RmwReg, 0)
    /\ steps' = Append(steps, << c, "read" >>)
    /\ UNCHANGED << sessionvars, envvars, utilvars, loadvars >>
    /\ UNCHANGED << pci_space, hw_space, ret, err >>
    /\ UNCHANGED << reg_value, field_value, preserve, orig >>

\* caller c enters write_register_field (taking the lock when the callers use
\* one) and runs reg_value = self.read_register(reg_name, cpu_thread)
RmwRead(c) ==
    /\ callers[c].pc = "called"
    /\ lock.used => lock.holder = ""
    /\ LET r == read_register(Cfg, Hw, RmwReg, 0, 0)
       IN  /\ callers' = [ callers EXCEPT ![c].pc = "read",
                                          ![c].reg_value = r.value ]
           /\ hw_log' = hw_log \o r.txns
    /\ lock' = IF lock.used THEN [ lock EXCEPT !.holder = c ] ELSE lock
    /\ Cfg' = StoreAfterDef(Cfg, RmwReg, 0)
    /\ steps' = Append(steps, << c, "read" >>)
    /\ UNCHANGED << sessionvars, envvars, utilvars, loadvars >>
    /\ UNCHANGED << pci_space, hw_space, ret, err >>
    /\ UNCHANGED << reg_value, field_value, preserve, orig >>

\* caller c runs set_register_field on the value it read and write_register,
\* and leaves write_register_field (releasing the lock)
RmwWrite(c) ==
    /\ callers[c].pc = "read"
    /\ LET reg_value_new == set_register_field(Cfg, RmwReg,
                                callers[c].reg_value, RmwField(c),
                                callers[c].field_value, FALSE)
           w == write_register(Cfg, Hw, RmwReg, reg_value_new, 0, 0)
       IN  /\ pci_space' = w.hw.pci
           /\ hw_space' = w.hw.cells
           /\ hw_log' = hw_log \o w.txns
    /\ callers' = [ callers EXCEPT ![c].pc = "done" ]
    /\ lock' = IF lock.used THEN [ lock EXCEPT !.holder = "" ] ELSE lock
    /\ Cfg' = StoreAfterDef(Cfg, RmwReg, 0)
    /\ steps' = Append(steps, << c, "write" >>)
    /\ UNCHANGED << sessionvars, envvars, utilvars, loadvars, ret, err >>
    /\ UNCHANGED << reg_value, field_value, preserve, orig >>

NextRmw == \E c \in Callers : RmwRead(c) \/ RmwWrite(c)

SpecRmw == InitRmw /\ [][NextRmw]_vars

\* both callers have returned
BothDone == \A c \in Callers : callers[c].pc = "done"

\* the field of caller c holds, in the register, the value c wrote
UpdatePresent(c) ==
    get_register_field(Cfg, RmwReg, read_register(Cfg, Hw, RmwReg, 0, 0).value,
                       RmwField(c), FALSE)
      = And(callers[c].field_value,
            Shr(FieldBits(Cfg, RmwReg, RmwField(c)),
                int(Cfg.REGISTERS[RmwReg]["FIELDS"][RmwField(c)]["bit"])))

\* who did what, in order, without the callers' names
OrderOfSteps == [ i \in DOMAIN steps |-> steps[i][2] ]

\* C17: when the two callers serialize their write_register_field calls on
\* the register, both field updates are in the register once both have
\* returned; without serialization an update can be missing, and it is
\* missing only after the two reads were both made before the two writes.
C17_LostUpdateOnlyUnserialized ==
    BothDone =>
        /\ lock.used => \A c \in Callers : UpdatePresent(c)
        /\ (\E c \in Callers : ~ UpdatePresent(c)) =>
              /\ ~ lock.used
              /\ OrderOfSteps = << "read", "read", "write", "write" >>

\* no serialization; A read, B read, A wrote, B wrote: the register holds B's
\* BASE and the LOCK bit it had before, not the 0 A wrote
C17_Witness ==
    /\ BothDone
    /\ ~ lock.used
    /\ steps = << << "A", "read" >>, << "B", "read" >>,
                  << "A", "write" >>, << "B", "write" >> >>
    /\ callers["A"].field_value = Zero
    /\ ~ UpdatePresent("A")
    /\ UpdatePresent("B")
    /\ Len(hw_log) = 4

-----------------------------------------------------------------------------
(* Claims on controls and on the store under register access *)

\* the register and the field a control names
ControlReg(control_name)   == Cfg.CONTROLS[control_name]["register"]
ControlField(control_name) == Cfg.CONTROLS[control_name]["field"]

\* C18 (as stated): get_control(name, t) returns what
\* read_register_field(register, field, cpu_thread=t) returns, and
\* set_control(name, v, t) issues the transport calls, with the values,
\* write_register_field(register, field, v, cpu_thread=t) issues.
C18_ControlsAreAliases ==
    [][ /\ (call'.op = "get_control" /\ call'.fail_at = 0) =>
              ret' = read_register_field(Cfg, Hw, ControlReg(call'.control),
                         ControlField(call'.control), FALSE,
                         call'.cpu_thread).value
        /\ (call'.op = "set_control" /\ call'.fail_at = 0) =>
              hw_log' = write_register_field(Cfg, Hw,
                            ControlReg(call'.control),
                            ControlField(call'.control), call'.value, FALSE,
                            call'.cpu_thread).txns
      ]_vars


\* C19 (as stated): whatever register accesses were made since init, the
\* store is the store init left: no descriptor and no bus binding has changed.
C19_StoreUnchangedByAccess ==
    Cfg = AccessCfg

-----------------------------------------------------------------------------
(* Claims on the identity init leaves *)

\* the last call was init with an explicit chipset code
ExplicitInit == InitDone /\ call.platform_code # None

\* the entries of the catalog that have a code
EntriesOfCode(dictionary, c) ==
    { i \in DOMAIN dictionary : dictionary[i].code = c }

\* C20: after init with an explicit chipset code that the catalog has, the
\* vendor id is 0x8086, the device id, the name and the id are those of an
\* entry of the catalog with that code, the revision is 0 and the session's
\* code is the code in lower case, whatever the host bridge of the machine is,
\* and init does not fail for the platform.  With a code the catalog does not
\* have, vid is 0xFFFF, did 0xFFFF and rid 0xFF, the platform is unknown, and
\* init raises UnknownChipsetError when it was to start the driver.
C20_ExplicitCode ==
    ExplicitInit =>
        IF EntriesOfCode(Chipset_Dictionary, call.platform_code) # {}
        THEN /\ vid = VID_INTEL
             /\ rid = 0
             /\ \E i \in EntriesOfCode(Chipset_Dictionary, call.platform_code) :
                  /\ did = Chipset_Dictionary[i].did
                  /\ id = Chipset_Dictionary[i].id
                  /\ longname = Chipset_Dictionary[i].longname
             /\ code = Lower(call.platform_code)
             /\ err = ""
        ELSE /\ vid = 65535 /\ did = 65535 /\ rid = 255
             /\ longname = "UnknownPlatform"
             /\ err = IF call.start_driver THEN "UnknownChipsetError" ELSE ""

\* init("SNB") on the Ivy Bridge machine: the session is a Sandy Bridge one
C20_Witness ==
    /\ ExplicitInit
    /\ call.platform_code = T_SNB
    /\ detect_platform(enum_devices).did = 336
    /\ vid = VID_INTEL /\ did \in { 256, 260, 264 } /\ code = T_snb


-----------------------------------------------------------------------------
(* the identity init leaves when the platform is not matched *)

\* the platform counts as matched: the vendor is the known one and the
\* device id is in the catalog
Matched == vid = VID_INTEL /\ HasKey(Chipset_Dictionary, did)

\* C21: after every init call, a platform that is not matched (the vendor
\* differs, the device id is unknown, or the explicit code is not
\* recognized) has the empty chipset code and the catalog id Unknown, and
\* no document of a chipset is loaded for it.
C21_UnmatchedHasNoCode ==
    InitDone /\ ~Matched =>
        /\ code = << >>
        /\ id = 0
        /\ \A i \in DOMAIN loadlog :
             \A c \in DOMAIN Chipset_Code :
                ~fnmatch(Basename(loadlog[i]), Lower(c))


-----------------------------------------------------------------------------
(* when init fails *)

\* what the last init call decided on: the live identity, or the one of the
\* explicit code
Unmatched ==
    IF call.platform_code = None
    THEN \/ detect_platform(enum_devices).vid # VID_INTEL
         \/ ~HasKey(Chipset_Dictionary, detect_platform(enum_devices).did)
    ELSE \A i \in DOMAIN Chipset_Dictionary :
            Chipset_Dictionary[i].code # call.platform_code

\* C22: init signals UnknownChipsetError if and only if the chipset is
\* unmatched and a hardware transport is demanded (start_driver true); with
\* start_driver false an unmatched chipset never makes init fail.
C22_UnknownChipsetError ==
    InitDone =>
        /\ err = "UnknownChipsetError" <=> (Unmatched /\ call.start_driver)
        /\ ~call.start_driver => err = ""

\* a live identity that is not matched, with the driver demanded
C22_Witness ==
    /\ InitDone /\ Unmatched /\ call.start_driver
    /\ err = "UnknownChipsetError"
    /\ call.platform_code = None


-----------------------------------------------------------------------------
(* the PCH path of init *)

\* the PCH identity an init call with req_pch_code decides on: the vendor
\* id, and the device ids it may take
PchVendor(req_pch_code) ==
    IF req_pch_code = None THEN detect_platform(enum_devices).pch_vid
    ELSE IF EntriesOfCode(pch_dictionary, req_pch_code) # {}
    THEN VID_INTEL ELSE 65535

PchDevices(req_pch_code) ==
    IF req_pch_code = None THEN { detect_platform(enum_devices).pch_did }
    ELSE IF EntriesOfCode(pch_dictionary, req_pch_code) # {}
    THEN { pch_dictionary[i].did :
             i \in EntriesOfCode(pch_dictionary, req_pch_code) }
    ELSE { 65535 }

\* C23: whatever the chipset path decides, an init call sets the PCH code
\* from the PCH catalog exactly when the PCH vendor id is 0x8086 and the PCH
\* device id (live, or of a recognized explicit PCH code) is in the PCH
\* catalog; otherwise the PCH code stays what it was, empty on the first
\* init of a session, with the description "Default PCH"; and init fails
\* only on an unmatched chipset, never on the PCH alone.
C23_PchIndependent ==
    [][ call'.op = "init" =>
          /\ pch_vid' = PchVendor(call'.req_pch_code)
          /\ pch_did' \in PchDevices(call'.req_pch_code)
          /\ IF pch_vid' = VID_INTEL /\ HasKey(pch_dictionary, pch_did')
             THEN /\ pch_code' = Lower(Entry(pch_dictionary, pch_did').code)
                  /\ pch_longname' = Entry(pch_dictionary, pch_did').longname
                  /\ pch_id' = Entry(pch_dictionary, pch_did').id
             ELSE /\ pch_code' = pch_code
                  /\ ncalls = 0 => pch_code' = << >>
                  /\ pch_longname' = "Default PCH"
          /\ err' # "" => Unmatched' ]_vars

\* the chipset is not matched and the PCH is, by its explicit code
C23_Witness ==
    /\ InitDone /\ Unmatched /\ err = ""
    /\ call.req_pch_code = T_PCH_ \o T_1XX
    /\ pch_code = T_pch_ \o T_1xx
    /\ code = << >>


-----------------------------------------------------------------------------
(* MSR registers: the two halves of a value *)

\* the MSR registers of the store
MsrRegisters ==
    { n \in DOMAIN AccessCfg.REGISTERS :
        AccessCfg.REGISTERS[n]["type"] = "msr" }

\* read_register(reg_name, cpu_thread) of an MSR register
ReadMsrRegister ==
    \E reg_name \in MsrRegisters, cpu_thread \in Threads,
       fail_at \in FailPoints :
      LET r == read_register(Cfg, Hw, reg_name, cpu_thread, 0)
      IN  Outcome([ op |-> "read_register", reg |-> reg_name,
                    cpu_thread |-> cpu_thread, bus_index |-> 0,
                    fail_at |-> fail_at ],
                  r, << >>, Cfg, Cfg, fail_at)

\* write_register(reg_name, reg_value, cpu_thread) of an MSR register
WriteMsrRegister ==
    \E reg_name \in MsrRegisters, cpu_thread \in Threads,
       value \in RegValues, fail_at \in FailPoints :
      LET w == write_register(Cfg, Hw, reg_name, value, cpu_thread, 0)
      IN  Outcome([ op |-> "write_register", reg |-> reg_name,
                    value |-> value, cpu_thread |-> cpu_thread,
                    bus_index |-> 0, fail_at |-> fail_at ],
                  [ value |-> NoValue, txns |-> w.txns, err |-> w.err ],
                  << >>, Cfg, Cfg, fail_at)

NextMsr == ReadMsrRegister \/ WriteMsrRegister

SpecMsr == InitAccess /\ [][NextMsr]_vars

\* the MSR a call on an MSR register addresses
MsrOfCall(c) ==
    << "msr", "", c.cpu_thread, int16(AccessCfg.REGISTERS[c.reg]["msr"]) >>

\* the low and the high 32 bits of a value, each as a number of 32 bits
LowHalf(x)  == { b \in x : b < 32 }
HighHalf(x) == { b - 32 : b \in { h \in x : h >= 32 /\ h < 64 } }

\* C24: a read of an MSR register on thread t makes one MSR read on thread t
\* and returns (edx << 32) | eax of it; a write of x makes one MSR write on
\* thread t with eax = x & 0xFFFFFFFF and edx = (x >> 32) & 0xFFFFFFFF; and a
\* read that follows a write of a 64-bit x on the same thread returns x.
C24_MsrHalves ==
    [][ /\ (call'.op = "read_register" /\ err' = "") =>
              /\ Len(hw_log') = 1
              /\ hw_log'[1].op = "read_msr"
              /\ hw_log'[1].addr = MsrOfCall(call')
              /\ ret' = IF MsrOfCall(call') \in DOMAIN hw_space
                        THEN hw_space[MsrOfCall(call')] ELSE Zero
        /\ (call'.op = "write_register") =>
              /\ Len(hw_log') = 1
              /\ hw_log'[1].op = "write_msr"
              /\ hw_log'[1].addr = MsrOfCall(call')
              /\ hw_log'[1].eax = LowHalf(call'.value)
              /\ hw_log'[1].edx = HighHalf(call'.value)
        /\ ( /\ call.op = "write_register" /\ err = ""
             /\ call'.op = "read_register" /\ err' = ""
             /\ MsrOfCall(call') = MsrOfCall(call) ) =>
              ret' = call.value ]_vars

\* a value with bits in both halves was written and read back on thread 1,
\* where thread 0 holds another value
C24_Witness ==
    /\ call.op = "read_register" /\ call.cpu_thread = 1 /\ err = ""
    /\ ret = {0, 31, 32, 63}
    /\ hw_space[<< "msr", "", 0, 58 >>] # ret


-----------------------------------------------------------------------------
(* lookups by name, of names the store has and of names it does not have *)

\* is_register_defined(reg_name): the KeyError of the lookup is caught
is_register_defined(cfg, reg_name) == ~RegisterKeyError(cfg, reg_name)

\* register_has_field(reg_name, field_name): [value, err]
register_has_field(cfg, reg_name, field_name) ==
    IF RegisterKeyError(cfg, reg_name)
    THEN [ value |-> NoValue, err |-> "KeyError" ]
    ELSE LET reg_def == get_register_def(cfg, reg_name, 0)
         IN  [ value |-> /\ "FIELDS" \in DOMAIN reg_def
                         /\ field_name \in DOMAIN reg_def["FIELDS"],
               err   |-> "" ]

\* get_device_BDF(device_name): [value, err]
get_device_BDF(cfg, device_name) ==
    IF device_name \notin DOMAIN cfg.CONFIG_PCI
    THEN [ value |-> NoValue, err |-> "KeyError" ]
    ELSE LET device == cfg.CONFIG_PCI[device_name]
         IN  IF device = EmptyDict
             THEN [ value |-> NoValue, err |-> "DeviceNotFoundError" ]
             ELSE [ value |-> << int16(device["bus"]), int16(device["dev"]),
                                 int16(device["fun"]) >>,
                    err   |-> "" ]

\* the store of AccessCfg with P3, a PCI-config register of three bytes
LookupCfg ==
    [ AccessCfg EXCEPT !.REGISTERS =
        DictSet(@, "P3", DictSet(DictSet(DictSet(DictSet(DictSet(EmptyDict,
            "type", "pcicfg"), "name", "P3"), "device", "DEV"),
            "offset", "0x40"), "size", "0x3")) ]

InitLookup ==
    /\ code = T_snb /\ vid = VID_INTEL /\ did = 256 /\ rid = 9 /\ id = 1
    /\ longname = "Desktop 2nd Generation Core Processor (Sandy Bridge CPU / Cougar Point PCH)"
    /\ pch_code = T_pch_ \o T_1xx /\ pch_vid = VID_INTEL /\ pch_did = 41283
    /\ pch_rid = 49 /\ pch_id = 10001
    /\ pch_longname = "Intel H110 (100 series) PCH"
    /\ helper = [ started |-> TRUE, driver |-> TRUE ]
    /\ call = [ op |-> "init" ]
    /\ ncalls = 0
    /\ BareMachine
    /\ Cfg = LookupCfg
    /\ fs = {} /\ loadlog = << >> /\ snapshot = EmptyCfg /\ replay = 0
    /\ pci_space = AccessPci /\ hw_space = AccessCells
    /\ hw_log = << >> /\ ret = Zero /\ err = ""
    /\ reg_value = Zero /\ field_value = Zero /\ preserve = FALSE
    /\ orig = [ reg_value |-> Zero, field_value |-> Zero ]
    /\ steps = << >>
    /\ NoCallers
    /\ NoMain

\* the names the calls are made with: registers and a device of the store,
\* and a name the store does not have
LookupRegisters == { "PC", "P3", "MS", "NOPE" }
LookupDevices   == { "DEV", "NOPE" }
LookupFields    == { "LOCK", "NOPE" }

\* the store once get_register_def has run, when it has run
StoreAfterLookup(cfg, reg_name) ==
    IF RegisterKeyError(cfg, reg_name) THEN cfg
    ELSE StoreAfterDef(cfg, reg_name, 0)

\* read_register(reg_name)
LookupRead ==
    \E reg_name \in LookupRegisters :
      Outcome([ op |-> "read_register", reg |-> reg_name ],
              read_register(Cfg, Hw, reg_name, 0, 0), << >>,
              StoreAfterLookup(Cfg, reg_name),
              StoreAfterLookup(Cfg, reg_name), 0)

\* write_register(reg_name, reg_value)
LookupWrite ==
    \E reg_name \in LookupRegisters, value \in AccessValues :
      LET w == write_register(Cfg, Hw, reg_name, value, 0, 0)
      IN  Outcome([ op |-> "write_register", reg |-> reg_name,
                    value |-> value ],
                  [ value |-> NoValue, txns |-> w.txns, err |-> w.err ],
                  << >>, StoreAfterLookup(Cfg, reg_name),
                  StoreAfterLookup(Cfg, reg_name), 0)

\* register_has_field(reg_name, field_name)
RegisterHasField ==
    \E reg_name \in LookupRegisters, field_name \in LookupFields :
      LET r == register_has_field(Cfg, reg_name, field_name)
      IN  Outcome([ op |-> "register_has_field", reg |-> reg_name,
                    field |-> field_name ],
                  [ value |-> r.value, txns |-> << >>, err |-> r.err ],
                  << >>, StoreAfterLookup(Cfg, reg_name),
                  StoreAfterLookup(Cfg, reg_name), 0)

\* is_register_defined(reg_name)
IsRegisterDefined ==
    \E reg_name \in LookupRegisters :
      Outcome([ op |-> "is_register_defined", reg |-> reg_name ],
              [ value |-> is_register_defined(Cfg, reg_name),
                txns |-> << >>, err |-> "" ],
              << >>, Cfg, Cfg, 0)

\* get_device_BDF(device_name)
GetDeviceBDF ==
    \E device_name \in LookupDevices :
      LET r == get_device_BDF(Cfg, device_name)
      IN  Outcome([ op |-> "get_device_BDF", device |-> device_name ],
                  [ value |-> r.value, txns |-> << >>, err |-> r.err ],
                  << >>, Cfg, Cfg, 0)

NextLookup ==
    \/ LookupRead \/ LookupWrite \/ RegisterHasField
    \/ IsRegisterDefined \/ GetDeviceBDF

SpecLookup == InitLookup /\ [][NextLookup]_vars

\* the last call needed a register, and the store has none of its name
RegisterAbsent ==
    /\ call.op \in { "read_register", "write_register", "register_has_field" }
    /\ call.reg \notin DOMAIN Cfg.REGISTERS

\* C25: read_register, write_register and register_has_field of a name that
\* is absent from the registers fail with RegisterNotFound; get_device_BDF
\* of a name that is absent from the devices fails with DeviceNotFound;
\* is_register_defined of an absent name returns False and does not fail.
C25_TypedLookupErrors ==
    /\ RegisterAbsent => err = "RegisterNotFoundError"
    /\ ( /\ call.op = "get_device_BDF"
         /\ call.device \notin DOMAIN Cfg.CONFIG_PCI )
       => err = "DeviceNotFoundError"
    /\ ( /\ call.op = "is_register_defined"
         /\ call.reg \notin DOMAIN Cfg.REGISTERS )
       => (err = "" /\ ret = FALSE)


-----------------------------------------------------------------------------
(* a PCI-config register whose size no branch handles *)

\* the last call was on a PCI-config register whose declared size is not 1,
\* 2, 4 or 8
OddSizeAccess ==
    /\ call.op \in { "read_register", "write_register" }
    /\ call.reg \in DOMAIN Cfg.REGISTERS
    /\ Cfg.REGISTERS[call.reg]["type"] = "pcicfg"
    /\ int16(Cfg.REGISTERS[call.reg]["size"]) \notin { 1, 2, 4, 8 }

\* C29: for a PCI-config register whose declared size is not 1, 2, 4 or 8,
\* read_register returns 0 and write_register returns normally; neither
\* issues a hardware transaction, changes the hardware or signals an error.
C29_OddSizeIsSilent ==
    [][ OddSizeAccess' =>
          /\ err' = ""
          /\ hw_log' = << >>
          /\ pci_space' = pci_space /\ hw_space' = hw_space
          /\ call'.op = "read_register" => ret' = Zero ]_vars

\* a read of the three bytes at 0x40, where the device holds bits that are
\* set
C29_Witness ==
    /\ OddSizeAccess /\ call.op = "read_register"
    /\ ret = Zero /\ err = "" /\ hw_log = << >>
    /\ PciRead(pci_space, int16(Cfg.REGISTERS[call.reg]["bus"]), 31, 0, 64, 4)
         # Zero


-----------------------------------------------------------------------------
(* init and register access, called in any order on a new session *)

\* the registers the calls name: X and Y are defined by common.xml
OrderRegisters == { "X", "Y" }

\* init(platform_code, None, start_driver)
OrderInit ==
    /\ ncalls < MaxCalls
    /\ ncalls' = ncalls + 1
    /\ \E platform_code \in { None, T_XYZ }, start_driver \in BOOLEAN :
         init_call(platform_code, None, start_driver)
    /\ UNCHANGED utilvars

\* read_register(reg_name)
OrderRead ==
    \E reg_name \in OrderRegisters :
      Outcome([ op |-> "read_register", reg |-> reg_name ],
              read_register(Cfg, Hw, reg_name, 0, 0),
              IF RegisterKeyError(Cfg, reg_name) THEN << >>
              ELSE Reports(Cfg, reg_name, 0),
              StoreAfterLookup(Cfg, reg_name),
              StoreAfterLookup(Cfg, reg_name), 0)

\* write_register(reg_name, reg_value)
OrderWrite ==
    \E reg_name \in OrderRegisters :
      LET w == write_register(Cfg, Hw, reg_name, 0 .. 63, 0, 0)
      IN  Outcome([ op |-> "write_register", reg |-> reg_name,
                    value |-> 0 .. 63 ],
                  [ value |-> NoValue, txns |-> w.txns, err |-> w.err ],
                  IF RegisterKeyError(Cfg, reg_name) THEN << >>
                  ELSE Reports(Cfg, reg_name, 0),
                  StoreAfterLookup(Cfg, reg_name),
                  StoreAfterLookup(Cfg, reg_name), 0)

NextOrder == OrderInit \/ OrderRead \/ OrderWrite

\* the configuration space of the functions a register of the documents may
\* address
OrderPci ==
    [ bdf \in (0 .. 4) \X { 0, 31 } \X { 0, 1 } |-> Shl({0, 7, 31}, 8 * 64) ]

\* a new session on a machine whose devices answer
InitOrder ==
    /\ NewChipset
    /\ enum_devices \in Machines
    /\ \E inst \in Installations :
         /\ fs = inst.fs
         /\ malformed = inst.malformed
         /\ cfg_modules = inst.cfg_modules
    /\ Cfg = EmptyCfg
    /\ loadlog = << >> /\ snapshot = EmptyCfg /\ replay = 0
    /\ pci_space = OrderPci /\ hw_space = AccessCells
    /\ hw_log = << >> /\ ret = Zero /\ err = ""
    /\ reg_value = Zero /\ field_value = Zero /\ preserve = FALSE
    /\ orig = [ reg_value |-> Zero, field_value |-> Zero ]
    /\ steps = << >>
    /\ NoCallers
    /\ NoMain

SpecOrder == InitOrder /\ [][NextOrder]_vars

\* Ready: init has started the helper, identified the platform, loaded the
\* configuration to its end and resolved the buses
Ready == helper.started /\ Cfg.XML_CONFIG_LOADED

\* C26: a register read or write issues a hardware transaction only when the
\* session is Ready, for every order of init, read_register and
\* write_register.
C26_AccessOnlyWhenReady ==
    ( /\ call.op \in { "read_register", "write_register" }
      /\ Transactions(hw_log) # << >> )
    => Ready


-----------------------------------------------------------------------------
(* chipsec_util: ChipsecUtil.main, one run of the utility *)

\* self.commands: the commands of chipsec.utilcmd, and whether
\* requires_driver() of each is true
Commands == [ c \in { "msr", "decode" } |-> c = "msr" ]

\* what the command line may name: a command, help, or a word that is neither
CmdArgs == DOMAIN Commands \cup { "help", "bogus" }

\* the options as parse_args leaves them, and main about to run; --platform
\* accepts the codes of Chipset_Code only
InitUtil ==
    /\ NewChipset
    /\ enum_devices \in Machines
    /\ \E inst \in Installations :
         /\ fs = inst.fs
         /\ malformed = inst.malformed
         /\ cfg_modules = inst.cfg_modules
    /\ Cfg = EmptyCfg
    /\ loadlog = << >> /\ snapshot = EmptyCfg /\ replay = 0
    /\ pci_space = EmptyDict /\ hw_space = EmptyDict
    /\ hw_log = << >> /\ ret = Zero /\ err = ""
    /\ reg_value = Zero /\ field_value = Zero /\ preserve = FALSE
    /\ orig = [ reg_value |-> Zero, field_value |-> Zero ]
    /\ steps = << >>
    /\ NoCallers
    /\ \E cmd \in CmdArgs, show_help \in BOOLEAN, _no_driver \in BOOLEAN,
          _platform \in { None, T_SNB } :
         util = [ pc |-> "main", cmd |-> cmd, show_help |-> show_help,
                  _no_driver |-> _no_driver, _platform |-> _platform,
                  _pch |-> None, log |-> << >>, exit |-> "" ]

\* main up to the choice of the command: help and an unknown command return
\* at once
UtilSelect ==
    /\ util.pc = "main"
    /\ util' =
         IF util.show_help
         THEN [ util EXCEPT !.pc = "returned", !.exit = "ExitCode.OK" ]
         ELSE IF util.cmd \in DOMAIN Commands
         THEN [ util EXCEPT !.pc = "init" ]
         ELSE IF util.cmd = "help"
         THEN [ util EXCEPT !.pc = "returned", !.exit = "ExitCode.OK" ]
         ELSE [ util EXCEPT !.pc = "returned", !.exit = "ExitCode.WARNING",
                            !.log = Append(@, [ op |-> "logger.error" ]) ]
    /\ UNCHANGED << sessionvars, envvars, Cfg, loadvars, hwvars, fieldvars,
                    rmwvars >>

\* self._cs.init(self._platform, self._pch,
\*               comm.requires_driver() and not self._no_driver),
\* with UnknownChipsetError caught: warnings are logged and main goes on
UtilInit ==
    /\ util.pc = "init"
    /\ init_call(util._platform, util._pch,
                 Commands[util.cmd] /\ ~util._no_driver)
    /\ util' = [ util EXCEPT
                   !.pc = "run",
                   !.log = @ \o << [ op |-> "init",
                                     start_driver |-> Commands[util.cmd]
                                                      /\ ~util._no_driver ] >>
                             \o IF err' = "UnknownChipsetError"
                                THEN << [ op |-> "logger.warn" ] >>
                                ELSE << >> ]
    /\ UNCHANGED ncalls

\* comm.run(): it returns, or it raises and the exception leaves main
UtilRun ==
    /\ util.pc = "run"
    /\ \E raises \in BOOLEAN :
         util' = [ util EXCEPT
                     !.pc = IF raises THEN "raised" ELSE "ran",
                     !.log = Append(@, [ op |-> "run" ]) ]
    /\ UNCHANGED << sessionvars, envvars, Cfg, loadvars, hwvars, fieldvars,
                    rmwvars >>

\* if comm.requires_driver(): self._cs.destroy(True); return comm.ExitCode
UtilReturn ==
    /\ util.pc = "ran"
    /\ IF Commands[util.cmd]
       THEN /\ helper' = [ started |-> FALSE, driver |-> FALSE ]
            /\ call' = [ op |-> "destroy", start_driver |-> TRUE ]
            /\ err' = ""
            /\ util' = [ util EXCEPT
                           !.pc = "returned", !.exit = "comm.ExitCode",
                           !.log = Append(@, [ op |-> "destroy",
                                               start_driver |-> TRUE ]) ]
       ELSE /\ util' = [ util EXCEPT
                           !.pc = "returned", !.exit = "comm.ExitCode" ]
            /\ UNCHANGED << helper, call, err >>
    /\ UNCHANGED << identityvars, ncalls, envvars, Cfg, loadvars, fieldvars,
                    rmwvars >>
    /\ UNCHANGED << pci_space, hw_space, hw_log, ret >>

NextUtil == UtilSelect \/ UtilInit \/ UtilRun \/ UtilReturn

SpecUtil == InitUtil /\ [][NextUtil]_vars

\* the events of a kind in the log of the run
Logged(op) == { i \in DOMAIN util.log : util.log[i].op = op }

\* init has been called, and with start_driver true
InitCalled == Logged("init") # {}
TransportRequired ==
    \E i \in Logged("init") : util.log[i].start_driver

\* C27: when the command requires a hardware transport and the platform is
\* unknown, the run is fatal: the command is not run; when no transport is
\* required, an unknown platform gives a warning and the command runs.
C27_UnknownPlatformInUtil ==
    (InitCalled /\ ~Matched) =>
        IF TransportRequired
        THEN Logged("run") = {}
        ELSE /\ Logged("logger.warn") # {}
             /\ util.pc \in { "ran", "raised", "returned" }
                  => Logged("run") # {}


\* the run of main is over: it returned, or an exception left it
MainOver == util.pc \in { "returned", "raised" }

\* C30: in every run of the utility, destroy is called with start_driver true
\* only if init was called with start_driver true, and a run in which init
\* started the helper with the driver ends with a destroy.
C30_StartStopPaired ==
    /\ \A i \in Logged("destroy") :
         util.log[i].start_driver =>
            \E j \in Logged("init") : j < i /\ util.log[j].start_driver
    /\ (MainOver /\ TransportRequired) => Logged("destroy") # {}


-----------------------------------------------------------------------------
(* the session at the moment init raises UnknownChipsetError *)

\* the common documents of the installation
CommonDocuments == { f \in fs : fnmatch(Basename(f), T_common) }

\* C28: whenever init signals UnknownChipsetError, the helper has been
\* started and not stopped, the configuration has been loaded and the buses
\* resolved: the store holds the definitions of the common documents.
C28_LoadedBeforeUnknownChipsetError ==
    (InitDone /\ err = "UnknownChipsetError") =>
        /\ helper.started /\ helper.driver
        /\ Cfg.XML_CONFIG_LOADED
        /\ CommonDocuments \subseteq Range(loadlog)

=============================================================================
